---------------------------- MODULE Spec2Model ----------------------------
(***************************************************************************)
(* rootfs-diff: reconciliation of two file trees (bin/rootfs-diff.ts main) *)
(* and the content-addressed cache of the diff/compression wrappers        *)
(* (src/utils.ts runDiffCommand, src/bsdiff.ts bsdiff, zstd).              *)
(*                                                                         *)
(* Paths are sequences of one-character strings, so that the regular       *)
(* expressions and string operations of the source are modelled character  *)
(* by character.                                                           *)
(***************************************************************************)
EXTENDS Integers, Sequences, FiniteSets, TLC

(***************************************************************************)
(* Strings                                                                 *)
(***************************************************************************)

\* \d of a JavaScript regular expression
Digit == {"0", "1", "2", "3", "4", "5", "6", "7", "8", "9"}

\* s.slice(n): s without its first n characters
slice(s, n) == SubSeq(s, n + 1, Len(s))

\* s.startsWith(w)
startsWith(s, w) == Len(w) <= Len(s) /\ SubSeq(s, 1, Len(w)) = w

\* w occurs in s at index i (1-based)
OccursAt(s, w, i) == i + Len(w) - 1 <= Len(s) /\ SubSeq(s, i, i + Len(w) - 1) = w

(***************************************************************************)
(* Regular expressions, as sets of positions: each piece maps the set I of *)
(* positions where a match may start to the set of positions where it may  *)
(* end (a position is the index of the next character to read), which is   *)
(* what a backtracking matcher explores.                                   *)
(***************************************************************************)

\* a literal w
ReLit(s, w, I) == {i + Len(w) : i \in {j \in I : OccursAt(s, w, j)}}

\* \d+
ReDigits(s, I) ==
  {j \in 2..(Len(s) + 1) :
     \E i \in I : i < j /\ \A k \in i..(j - 1) : s[k] \in Digit}

\* (?:\.\d+)
ReDotDigits(s, I) == ReDigits(s, ReLit(s, <<".">>, I))

\* (?:\.\d+){0,3}
ReDotDigits0to3(s, I) ==
  LET r1 == ReDotDigits(s, I)
      r2 == ReDotDigits(s, r1)
      r3 == ReDotDigits(s, r2)
  IN  I \cup r1 \cup r2 \cup r3

\* (?:\.\d+){1,3}
ReDotDigits1to3(s, I) ==
  LET r1 == ReDotDigits(s, I)
      r2 == ReDotDigits(s, r1)
      r3 == ReDotDigits(s, r2)
  IN  r1 \cup r2 \cup r3

\* soEndingEnds without its first alternative
soEndingEnds_OnlyDotSo(s, I) == ReDotDigits1to3(s, ReLit(s, <<".", "s", "o">>, I))

\* (?:-\d+(?:\.\d+){0,3}\.so|\.so(?:\.\d+){1,3}) without the trailing $
soEndingEnds(s, I) ==
  ReLit(s, <<".", "s", "o">>, ReDotDigits0to3(s, ReDigits(s, ReLit(s, <<"-">>, I))))
    \cup ReDotDigits1to3(s, ReLit(s, <<".", "s", "o">>, I))

\* soEndingRegex = /(?:...)$/ tried from position i: a match that ends at
\* the end of s
soEndingRegex(s, i) == (Len(s) + 1) \in soEndingEnds(s, {i})

\* soEndingRegexStrict = new RegExp(`^${soEndingRegex.source}`): s.match(...)
soEndingRegexStrict(s) == soEndingRegex(s, 1)

NoMatch == <<>>

\* soBaseNameRegex = new RegExp(`^(.+)${soEndingRegex.source}`): the value
\* of s.match(...)[1], the greedy (longest) non-empty group 1, or NoMatch
soBaseNameRegex(s) ==
  LET ks == {k \in 1..Len(s) : soEndingRegex(s, k + 1)}
  IN  IF ks = {} THEN NoMatch
      ELSE SubSeq(s, 1, CHOOSE k \in ks : \A m \in ks : m <= k)

LibexecDir == <<"/", "l", "i", "b", "e", "x", "e", "c", "/">>
LibDir == <<"/", "l", "i", "b", "/">>

\* s.replace(/\/libexec\//, '/lib/'): the first occurrence only (no g flag)
replaceLibexec(s) ==
  LET is == {i \in 1..Len(s) : OccursAt(s, LibexecDir, i)}
  IN  IF is = {} THEN s
      ELSE LET i == CHOOSE j \in is : \A m \in is : j <= m
           IN  SubSeq(s, 1, i - 1) \o LibDir \o slice(s, i - 1 + Len(LibexecDir))

(***************************************************************************)
(* Paths, contents and trees                                               *)
(***************************************************************************)

Usr == <<"u", "s", "r">>
Lib == <<"l", "i", "b">>
Libexec == <<"l", "i", "b", "e", "x", "e", "c">>
Helper == <<"h", "e", "l", "p", "e", "r">>
Libfoo == <<"l", "i", "b", "f", "o", "o">>
DotSo == <<".", "s", "o">>
Sl == <<"/">>

Libfoo_so_1 == Libfoo \o DotSo \o <<".", "1">>
Libfoo_so_2 == Libfoo \o DotSo \o <<".", "2">>
Libfoo_so_3 == Libfoo \o DotSo \o <<".", "3">>
Libfoo_2_0_so == Libfoo \o <<"-", "2", ".", "0">> \o DotSo
Usr_libexec_helper == Usr \o Sl \o Libexec \o Sl \o Helper
Usr_lib_helper == Usr \o Sl \o Lib \o Sl \o Helper
Usr_lib_libfoo_so_1 == Usr \o Sl \o Lib \o Sl \o Libfoo_so_1
Usr_lib_libfoo_so_2 == Usr \o Sl \o Lib \o Sl \o Libfoo_so_2
A_libfoo_so_1 == <<"a">> \o Sl \o Libfoo_so_1
B_libfoo_so_2 == <<"b">> \o Sl \o Libfoo_so_2
Root_toString == <<"t", "o", "S", "t", "r", "i", "n", "g">>

\* The paths of the bounded trees
Paths == {Libfoo_so_1, Libfoo_so_2, Usr_libexec_helper, Usr_lib_helper}

\* Every path of the model
AllPaths ==
  Paths \cup {Libfoo_so_3, Libfoo_2_0_so, Usr_lib_libfoo_so_1, Usr_lib_libfoo_so_2,
              A_libfoo_so_1, B_libfoo_so_2, Root_toString}

\* File contents; sha1File and lstat().size are functions of the content
Contents == {"c1", "c2", "c3"}
SizeOf == [c \in Contents |-> CASE c = "c1" -> 2 [] c = "c2" -> 1 [] c = "c3" -> 2]

\* sha1File(f.fullPath).toString('hex'): distinct contents have distinct digests
sha1File(f) == <<"sha1", f.content>>

\* An entry of listFolder for a regular file
RegularFile(p, c) ==
  [path |-> p, isFile |-> TRUE, isSymbolicLink |-> FALSE, symlinkPath |-> <<>>,
   content |-> c, size |-> SizeOf[c]]

\* An entry of listFolder for a symbolic link with the tree-relative target t
SymbolicLink(p, t) ==
  [path |-> p, isFile |-> FALSE, isSymbolicLink |-> TRUE, symlinkPath |-> t,
   content |-> "link", size |-> Len(t)]

\* Total number of entries of the two bounded trees, and of their symlinks
MaxEntries == 3
MaxLinks == 1

BoundedEntries ==
  {RegularFile(p, c) : p \in Paths, c \in {"c1", "c2"}}
    \cup {SymbolicLink(p, t) : p \in Paths, t \in Paths}

\* Listings of n entries; paths are unique within a tree
ListingsOfLen ==
  [n \in 0..MaxEntries |->
     {l \in [1..n -> BoundedEntries] :
        \A a, b \in 1..n : l[a].path = l[b].path => a = b}]

SeqFilter(s, Test(_)) == SelectSeq(s, Test)
isFile(f) == f.isFile
isSymbolicLink(f) == f.isSymbolicLink
NumLinks(l) == Len(SelectSeq(l, isSymbolicLink))

\* The bounded pairs of trees
BoundedTrees(from, to) ==
  \E nf \in 0..MaxEntries : \E nt \in 0..(MaxEntries - nf) :
    /\ from \in ListingsOfLen[nf]
    /\ to \in ListingsOfLen[nt]
    /\ NumLinks(from) + NumLinks(to) <= MaxLinks

\* The worked examples of the specification (section 8), with every content
ExampleTrees ==
  UNION {
    {<< <<RegularFile(Usr_lib_libfoo_so_1, a)>>, <<RegularFile(Usr_lib_libfoo_so_2, b)>> >>,
     << <<RegularFile(Libfoo_so_1, a)>>, <<RegularFile(Libfoo_2_0_so, b)>> >>,
     << <<RegularFile(Usr_libexec_helper, a)>>, <<RegularFile(Usr_lib_helper, b)>> >>,
     << <<RegularFile(A_libfoo_so_1, a), RegularFile(B_libfoo_so_2, b)>>,
        <<RegularFile(Libfoo_so_3, c)>> >>,
     << <<RegularFile(B_libfoo_so_2, a), RegularFile(A_libfoo_so_1, b)>>,
        <<RegularFile(Libfoo_so_3, c)>> >>,
     << <<RegularFile(Libfoo_so_1, a), RegularFile(Libfoo_so_2, b)>>,
        <<RegularFile(Libfoo_so_3, c)>> >>}
    : a \in Contents, b \in Contents, c \in Contents}

\* Trees for the runs with backends enabled: regular files only, so that two
\* pairs of files may have the same pair of digests
BackendTrees ==
  LET Sub(l) == {<<>>, <<l[1]>>, <<l[2]>>, l}
  IN  UNION {Sub(<<RegularFile(Libfoo_so_1, a), RegularFile(Usr_libexec_helper, b)>>)
               \X Sub(<<RegularFile(Libfoo_so_2, c), RegularFile(Usr_lib_helper, d)>>)
             : a \in {"c1", "c2"}, b \in {"c1", "c2"}, c \in {"c1", "c2"}, d \in {"c1", "c2"}}

(***************************************************************************)
(* The cache directory and the wrappers of the external tools              *)
(***************************************************************************)

\* `${diffCacheDir}/${digests.join('-')}.${ext}`
ArtifactPath(digests, ext) == [digests |-> digests, ext |-> ext]

\* lstat(path).catch(() => null) of a path that does not exist
Null == -1

\* The size of the artifact the external tool writes for a path (the tool is
\* a black box, a function of its inputs)
ToolSize(path) == 1 + Len(path.digests)

\* fs.rename(diffTmp, diff) after the tool wrote diffTmp with the given size
rename(dir, path, size) ==
  [q \in DOMAIN dir \cup {path} |-> IF q = path THEN size ELSE dir[q]]

\* The outcome of a wrapper: the cache directory after it, the size of the
\* fs.Stats it returns (Null when it throws), and what it did
Outcome(dir, path, size, present, tool, threw) ==
  [cache |-> dir, size |-> size, threw |-> threw,
   call |-> [path |-> path, present |-> present, tool |-> tool, size |-> size]]

\* runDiffCommand(template, from, to, diff, options), options.container unset;
\* toolOk: the external command exits without error
runDiffCommand(dir, diff, overwrite, toolOk) ==
  LET diffStat == IF diff \in DOMAIN dir THEN dir[diff] ELSE Null
  IN  IF diffStat # Null /\ ~overwrite
        THEN Outcome(dir, diff, diffStat, TRUE, FALSE, FALSE)
      ELSE IF ~toolOk
        THEN Outcome(dir, diff, Null, diffStat # Null, TRUE, TRUE)
      ELSE LET renamed == rename(dir, diff, ToolSize(diff))
           IN  Outcome(renamed, diff, renamed[diff], diffStat # Null, TRUE, FALSE)

\* bsdiff that returns a size of 0 when the tool exits with an error
bsdiff_SwallowsError(dir, diff, overwrite, toolOk) ==
  LET diffStat == IF diff \in DOMAIN dir THEN dir[diff] ELSE Null
  IN  IF diffStat = Null \/ overwrite
        THEN IF ~toolOk
               THEN Outcome(dir, diff, 0, diffStat # Null, TRUE, FALSE)
               ELSE LET renamed == rename(dir, diff, ToolSize(diff))
                    IN  Outcome(renamed, diff, renamed[diff], diffStat # Null, TRUE, FALSE)
        ELSE Outcome(dir, diff, diffStat, TRUE, FALSE, FALSE)

\* bsdiff(from, to, diff, options)
bsdiff(dir, diff, overwrite, toolOk) ==
  LET diffStat == IF diff \in DOMAIN dir THEN dir[diff] ELSE Null
  IN  IF diffStat = Null \/ overwrite
        THEN IF ~toolOk
               THEN Outcome(dir, diff, Null, diffStat # Null, TRUE, TRUE)
               ELSE LET renamed == rename(dir, diff, ToolSize(diff))
                    IN  Outcome(renamed, diff, renamed[diff], diffStat # Null, TRUE, FALSE)
        ELSE Outcome(dir, diff, diffStat, TRUE, FALSE, FALSE)

\* zstd that does not look for the artifact
zstd_IgnoresCache(dir, to, overwrite, toolOk) ==
  IF ~toolOk
    THEN Outcome(dir, to, Null, to \in DOMAIN dir, TRUE, TRUE)
    ELSE Outcome(rename(dir, to, ToolSize(to)), to, ToolSize(to), to \in DOMAIN dir, TRUE, FALSE)

\* zstd(from, to, options)
zstd(dir, to, overwrite, toolOk) ==
  LET toStat == IF to \in DOMAIN dir THEN dir[to] ELSE Null
  IN  IF toStat = Null \/ overwrite
        THEN IF ~toolOk
               THEN Outcome(dir, to, Null, toStat # Null, TRUE, TRUE)
               ELSE LET renamed == rename(dir, to, ToolSize(to))
                    IN  Outcome(renamed, to, renamed[to], toStat # Null, TRUE, FALSE)
        ELSE Outcome(dir, to, toStat, TRUE, FALSE, FALSE)

\* unsquashfs(from, to, options): the extracted tree is a directory of the
\* cache, looked up, written and renamed like the artifacts
unsquashfs(dir, to, overwrite, toolOk) ==
  LET toStat == IF to \in DOMAIN dir THEN dir[to] ELSE Null
  IN  IF toStat = Null \/ overwrite
        THEN IF ~toolOk
               THEN Outcome(dir, to, Null, toStat # Null, TRUE, TRUE)
               ELSE LET renamed == rename(dir, to, ToolSize(to))
                    IN  Outcome(renamed, to, renamed[to], toStat # Null, TRUE, FALSE)
        ELSE Outcome(dir, to, toStat, TRUE, FALSE, FALSE)

\* The wrapper main calls for each compressor type; main passes no overwrite
Wrapper(type, dir, path, toolOk) ==
  CASE type = "BS_DIFF" -> bsdiff(dir, path, FALSE, toolOk)
    [] type = "UNSQUASHFS" -> unsquashfs(dir, path, FALSE, toolOk)
    [] type \in {"ZSTD", "VC_DIFF_ZSTD", "COURGETTE_ZSTD", "ZUCCHINI_ZSTD"} ->
         zstd(dir, path, FALSE, toolOk)
    [] OTHER -> runDiffCommand(dir, path, FALSE, toolOk)

Backends == {"bsdiff", "vcdiff", "courgette", "zucchini", "zstd", "zstdDelta"}

VARIABLES
  fromFiles,    \* listFolder(fromPath)
  toFiles,      \* listFolder(toPath)
  toAliases,    \* Record<string, string[]>: a function on its assigned keys
  fromAliases,
  fileChanges,  \* FileChange[]
  log,          \* the "Found more then one from file match" lines, in order
  use,          \* the backends whose flag is set and whose probe succeeded
  cache,        \* the cache directory: the size of each artifact in it
  calls,        \* the wrapper calls of this run, in order
  pc,           \* the position of main
  idx,          \* the index of the running loop in its filtered listing
  args,         \* flags.images: what each path given on the command line is
  groups,       \* flags.group: the patterns, in order
  platform,     \* os.platform()
  flags,        \* the backends whose use* flag is set
  installed,    \* the external tools found on this machine
  unreadable,   \* the files whose read stream emits an error
  trace,        \* the work main has done before the comparison, in order
  report,       \* what the report section of main has printed
  run,          \* the number of this run over the same cache directory
  first,        \* the result of the first run, once it is complete
  dir,          \* the files of the cache directory, as the wrappers' steps see it
  procs,        \* the wrapper call each concurrent run is in
  fs,           \* the directory tree listFolder walks: the node at each path
  dirs,         \* listFolder: the directories still to read
  results,      \* listFolder: the entries pushed so far
  walk,         \* listFolder: the position of the call
  visited       \* listFolder: the directories read so far, in order

\* The variables of main's file comparison
mainVars == <<fromFiles, toFiles, toAliases, fromAliases, fileChanges, log, use,
              cache, calls, pc, idx>>

\* The inputs of a run, which no step changes
inputVars == <<args, groups, platform, flags, installed, unreadable>>

\* The variables of whole runs, and of the steps inside a wrapper
runVars == <<trace, report, run, first>>
wrapperVars == <<dir, procs>>

\* The variables of a call of listFolder
listerVars == <<fs, dirs, results, walk, visited>>

vars == <<mainVars, inputVars, runVars, wrapperVars, listerVars>>

Call(type, digests, ext) == [type |-> type, path |-> ArtifactPath(digests, ext)]
When(cond, seq) == IF cond THEN seq ELSE <<>>

\* zstd called whatever useZstd is
ZstdPlan_Unconditional(digest) == <<Call("ZSTD", <<digest>>, "zstd")>>

\* if (useZstd) zstd(file, `${diffCacheDir}/${sha1}.zstd`)
ZstdPlan(digest) == When("zstd" \in use, <<Call("ZSTD", <<digest>>, "zstd")>>)

\* An updated pair whose compressed deltas are asked for before the deltas
UpdatedPlan_OuterFirst(fd, td) ==
  When("bsdiff" \in use, <<Call("BS_DIFF", <<fd, td>>, "bsdiff")>>)
  \o When("vcdiff" \in use,
          When("zstd" \in use, <<Call("VC_DIFF_ZSTD", <<fd, td>>, "vcdiff.zstd")>>)
          \o <<Call("VC_DIFF", <<fd, td>>, "vcdiff")>>)
  \o When("zstdDelta" \in use, <<Call("ZSTD_DIFF", <<fd, td>>, "zstddiff")>>)
  \o When("courgette" \in use,
          When("zstd" \in use, <<Call("COURGETTE_ZSTD", <<fd, td>>, "courgette.zstd")>>)
          \o <<Call("COURGETTE", <<fd, td>>, "courgette")>>)
  \o When("zucchini" \in use,
          When("zstd" \in use, <<Call("ZUCCHINI_ZSTD", <<fd, td>>, "zucchini.zstd")>>)
          \o <<Call("ZUCCHINI", <<fd, td>>, "zucchini")>>)

\* The wrapper calls of an updated pair, in the order main makes them
UpdatedPlan(fd, td) ==
  When("bsdiff" \in use, <<Call("BS_DIFF", <<fd, td>>, "bsdiff")>>)
  \o When("vcdiff" \in use,
          <<Call("VC_DIFF", <<fd, td>>, "vcdiff")>>
          \o When("zstd" \in use, <<Call("VC_DIFF_ZSTD", <<fd, td>>, "vcdiff.zstd")>>))
  \o When("zstdDelta" \in use, <<Call("ZSTD_DIFF", <<fd, td>>, "zstddiff")>>)
  \o When("courgette" \in use,
          <<Call("COURGETTE", <<fd, td>>, "courgette")>>
          \o When("zstd" \in use, <<Call("COURGETTE_ZSTD", <<fd, td>>, "courgette.zstd")>>))
  \o When("zucchini" \in use,
          <<Call("ZUCCHINI", <<fd, td>>, "zucchini")>>
          \o When("zstd" \in use, <<Call("ZUCCHINI_ZSTD", <<fd, td>>, "zucchini.zstd")>>))

\* The awaited wrapper calls plan[k..], one after the other; the tool of call
\* failAt exits with an error (0: none does), which rejects and ends main
RECURSIVE RunPlan(_, _, _, _)
RunPlan(acc, plan, k, failAt) ==
  IF k > Len(plan) \/ acc.failed THEN acc
  ELSE LET r == Wrapper(plan[k].type, acc.cache, plan[k].path, k # failAt)
       IN  RunPlan([cache |-> r.cache,
                    calls |-> Append(acc.calls, r.call),
                    compressorResult |->
                      IF r.threw THEN acc.compressorResult
                      ELSE Append(acc.compressorResult,
                                  [type |-> plan[k].type, size |-> r.size]),
                    failed |-> r.threw],
                   plan, k + 1, failAt)

Run(plan, failAt) ==
  RunPlan([cache |-> cache, calls |-> <<>>, compressorResult |-> <<>>, failed |-> FALSE],
          plan, 1, failAt)

(***************************************************************************)
(* Inside a wrapper: the steps of one call, as concurrent runs interleave  *)
(* them on one cache directory                                             *)
(***************************************************************************)

\* Two runs of the program on the same cache directory
Runs == {"A", "B"}

\* The number of wrapper calls the two runs make in all
MaxCalls == 3

\* The artifacts of one pair of files, named by their extension, and the
\* wrapper main calls for each
Artifacts == {"bsdiff", "vcdiff", "zstd", "diffoscope"}
WrapperOf(ext) ==
  CASE ext = "bsdiff" -> "bsdiff"
    [] ext = "vcdiff" -> "runDiffCommand"
    [] ext = "zstd" -> "zstd"
    [] ext = "diffoscope" -> "diffoscope"

\* The delta and compression wrappers; diffoscope produces a text report
DeltaArtifacts == {"bsdiff", "vcdiff", "zstd"}

\* The path of an artifact in the cache directory
Final(ext) == <<ext>>

\* `${diff}.tmp.${crypto.randomBytes(4).toString('hex')}`: the random part is
\* taken to differ from one call to the next (r names the call)
diffTmp_InPlace(diff, r) == diff

diffTmp(diff, r) == diff \o <<"tmp", r>>

\* The temporary name of the call a run is in
TmpOf(p) == diffTmp(Final(procs[p].ext), <<p, procs[p].n>>)

\* The directory with file f holding content c, and without file f
WithFile(d, f, c) == [q \in DOMAIN d \cup {f} |-> IF q = f THEN c ELSE d[q]]
WithoutFile(d, f) == [q \in DOMAIN d \ {f} |-> d[q]]

Inactive == {"idle", "returned", "threw", "killed"}

\* main calls a wrapper for an artifact (a killed run is started again)
CallWrapper(p) ==
  /\ procs[p].pc \in Inactive
  /\ procs["A"].n + procs["B"].n < MaxCalls
  /\ \E ext \in Artifacts :
       procs' = [procs EXCEPT ![p] = [pc |-> "lstat", ext |-> ext, n |-> @.n + 1,
                                      hit |-> FALSE, read |-> "none",
                                      overwrite |-> FALSE]]
  /\ UNCHANGED dir
  /\ UNCHANGED <<mainVars, inputVars, listerVars, runVars>>

\* A caller other than main calls runDiffCommand, bsdiff or zstd with
\* options.overwrite set
CallOverwrite(p) ==
  /\ procs[p].pc \in Inactive
  /\ procs["A"].n + procs["B"].n < MaxCalls
  /\ \E ext \in DeltaArtifacts :
       procs' = [procs EXCEPT ![p] = [pc |-> "lstat", ext |-> ext, n |-> @.n + 1,
                                      hit |-> FALSE, read |-> "none",
                                      overwrite |-> TRUE]]
  /\ UNCHANGED dir
  /\ UNCHANGED <<mainVars, inputVars, listerVars, runVars>>

\* A wrapper that returns the cached artifact whatever options.overwrite is
Lstat_IgnoresOverwrite(p) ==
  /\ procs[p].pc = "lstat"
  /\ procs' = [procs EXCEPT ![p].hit = Final(procs[p].ext) \in DOMAIN dir,
                            ![p].pc =
                               IF Final(procs[p].ext) \notin DOMAIN dir THEN "exec"
                               ELSE IF WrapperOf(procs[p].ext) = "diffoscope" THEN "read"
                               ELSE "returned"]
  /\ UNCHANGED dir
  /\ UNCHANGED <<mainVars, inputVars, listerVars, runVars>>

\* const diffStat = await lstat(diff).catch(() => null), and the test
\* diffStat === null || mergedOptions.overwrite
Lstat(p) ==
  /\ procs[p].pc = "lstat"
  /\ procs' = [procs EXCEPT ![p].hit = Final(procs[p].ext) \in DOMAIN dir
                                       /\ ~procs[p].overwrite,
                            ![p].pc =
                               IF Final(procs[p].ext) \notin DOMAIN dir \/ procs[p].overwrite
                                 THEN "exec"
                               ELSE IF WrapperOf(procs[p].ext) = "diffoscope" THEN "read"
                               ELSE "returned"]
  /\ UNCHANGED dir
  /\ UNCHANGED <<mainVars, inputVars, listerVars, runVars>>

\* The external tool has begun to write its output: the temporary file
ToolWrites(p) ==
  /\ procs[p].pc = "exec"
  /\ WrapperOf(procs[p].ext) # "diffoscope"
  /\ dir' = WithFile(dir, TmpOf(p), "partial")
  /\ procs' = [procs EXCEPT ![p].pc = "writing"]
  /\ UNCHANGED <<mainVars, inputVars, listerVars, runVars>>

\* The callback of execFile: reject(error) when the tool failed (whatever it
\* wrote stays where it is), else the output is complete; diffoscope's output
\* is its stdout
ToolExits(p) ==
  /\ procs[p].pc \in {"exec", "writing"}
  /\ WrapperOf(procs[p].ext) = "diffoscope" => procs[p].pc = "exec"
  /\ \E error \in BOOLEAN :
       IF error
         THEN /\ procs' = [procs EXCEPT ![p].pc = "threw"]
              /\ UNCHANGED dir
       ELSE IF WrapperOf(procs[p].ext) = "diffoscope"
         THEN /\ procs' = [procs EXCEPT ![p].pc = "writeFile"]
              /\ UNCHANGED dir
       ELSE /\ procs' = [procs EXCEPT ![p].pc = "rename"]
            /\ dir' = WithFile(dir, TmpOf(p), "complete")
  /\ UNCHANGED <<mainVars, inputVars, listerVars, runVars>>

\* await rename(diffTmp, diff)
Rename(p) ==
  /\ procs[p].pc = "rename"
  /\ dir' = WithFile(WithoutFile(dir, TmpOf(p)), Final(procs[p].ext), dir[TmpOf(p)])
  /\ procs' = [procs EXCEPT ![p].pc = "stat"]
  /\ UNCHANGED <<mainVars, inputVars, listerVars, runVars>>

\* return await lstat(diff)
StatReturn(p) ==
  /\ procs[p].pc = "stat"
  /\ procs' = [procs EXCEPT ![p].pc =
                 IF Final(procs[p].ext) \in DOMAIN dir THEN "returned" ELSE "threw"]
  /\ UNCHANGED dir
  /\ UNCHANGED <<mainVars, inputVars, listerVars, runVars>>

\* diffoscope: await writeFile(diff, result), which opens diff and then writes
WriteFile(p) ==
  /\ procs[p].pc \in {"writeFile", "writingFile"}
  /\ IF procs[p].pc = "writeFile"
       THEN /\ dir' = WithFile(dir, Final(procs[p].ext), "partial")
            /\ procs' = [procs EXCEPT ![p].pc = "writingFile"]
       ELSE /\ dir' = WithFile(dir, Final(procs[p].ext), "complete")
            /\ procs' = [procs EXCEPT ![p].pc = "returned"]
  /\ UNCHANGED <<mainVars, inputVars, listerVars, runVars>>

\* diffoscope: result = (await readFile(diff)).toString('utf8')
ReadFile(p) ==
  /\ procs[p].pc = "read"
  /\ procs' = [procs EXCEPT ![p].pc = "returned",
                            ![p].read = IF Final(procs[p].ext) \in DOMAIN dir
                                          THEN dir[Final(procs[p].ext)] ELSE "none"]
  /\ UNCHANGED dir
  /\ UNCHANGED <<mainVars, inputVars, listerVars, runVars>>

\* The run is killed in the middle of a wrapper call
Kill(p) ==
  /\ procs[p].pc \notin Inactive
  /\ procs' = [procs EXCEPT ![p].pc = "killed"]
  /\ UNCHANGED dir
  /\ UNCHANGED <<mainVars, inputVars, listerVars, runVars>>

NoCalls == [p \in Runs |-> [pc |-> "idle", ext |-> "zstd", n |-> 0, hit |-> FALSE,
                            read |-> "none", overwrite |-> FALSE]]

(***************************************************************************)
(* main: the file comparison                                               *)
(***************************************************************************)

Range(s) == {s[k] : k \in DOMAIN s}

\* toFiles.filter(f => f.isFile), fromFiles.filter(f => f.isFile)
toRegular == SelectSeq(toFiles, isFile)
fromRegular == SelectSeq(fromFiles, isFile)

\* The first loop with an iteration left, from loop `at` on
Position(at) ==
  IF at = "compare" /\ Len(toRegular) > 0 THEN "compare"
  ELSE IF at \in {"compare", "removed"} /\ Len(fromRegular) > 0 THEN "removed"
  ELSE "print"

\* One iteration of the loop over toFiles' symlinks
addToAlias(tabs, toFile) ==
  LET k == toFile.symlinkPath
  IN  IF k \in DOMAIN tabs.to
        THEN [tabs EXCEPT !.to = [@ EXCEPT ![k] = Append(@, toFile.path)]]
        ELSE [tabs EXCEPT !.to = [q \in DOMAIN @ \cup {k} |->
                                    IF q = k THEN <<toFile.path>> ELSE @[q]]]

\* One iteration of the loop over fromFiles' symlinks: the test reads
\* fromAliases, both branches take or assign the array of toAliases
addFromAlias(tabs, fromFile) ==
  LET k == fromFile.symlinkPath
  IN  IF k \in DOMAIN tabs.from
        THEN [tabs EXCEPT !.to = [@ EXCEPT ![k] = Append(@, fromFile.path)]]
        ELSE [tabs EXCEPT !.to = [q \in DOMAIN @ \cup {k} |->
                                    IF q = k THEN <<fromFile.path>> ELSE @[q]]]

RECURSIVE Fold(_, _, _, _)
Fold(Op(_, _), acc, s, k) ==
  IF k > Len(s) THEN acc ELSE Fold(Op, Op(acc, s[k]), s, k + 1)

\* Build alias lookup table for all symlinks (both loops; neither awaits)
BuildAliases ==
  /\ pc = "aliases"
  /\ LET afterTo == Fold(addToAlias, [to |-> toAliases, from |-> fromAliases],
                         SelectSeq(toFiles, isSymbolicLink), 1)
         afterFrom == Fold(addFromAlias, afterTo,
                           SelectSeq(fromFiles, isSymbolicLink), 1)
     IN  /\ toAliases' = afterFrom.to
         /\ fromAliases' = afterFrom.from
  /\ pc' = Position("compare")
  /\ idx' = 1
  /\ UNCHANGED <<fromFiles, toFiles, fileChanges, log, use, cache, calls>>
  /\ UNCHANGED <<inputVars, listerVars, runVars, wrapperVars>>

\* The rules of the candidate filter, in the order of its else-if chain
exactPathRule(f, toFile) == f.path = toFile.path

\* soMatch on the file name of the "from" path, whatever its directory
soMatch_FileName(fromPath, toPath) ==
  LET soBaseNameMatch == soBaseNameRegex(toPath)
      slashes == {k \in DOMAIN fromPath : fromPath[k] = "/"}
      name == IF slashes = {} THEN fromPath
              ELSE slice(fromPath, CHOOSE k \in slashes : \A m \in slashes : m <= k)
  IN  /\ soBaseNameMatch # NoMatch
      /\ startsWith(name, soBaseNameMatch)
      /\ soEndingRegexStrict(slice(name, Len(soBaseNameMatch)))

soMatch(fromPath, toPath) ==
  LET soBaseNameMatch == soBaseNameRegex(toPath)
  IN  /\ soBaseNameMatch # NoMatch
      /\ startsWith(fromPath, soBaseNameMatch)
      /\ soEndingRegexStrict(slice(fromPath, Len(soBaseNameMatch)))

\* libexecMatch without the replacement
libexecMatch_NoReplace(fromPath, toPath) == fromPath = toPath

libexecMatch(fromPath, toPath) == replaceLibexec(fromPath) = replaceLibexec(toPath)

\* The two rules above read the two paths only: their values on the paths of
\* the model, computed once
PathRules ==
  [toPath \in AllPaths |->
     [so |-> {fromPath \in AllPaths : soMatch(fromPath, toPath)},
      libexec |-> {fromPath \in AllPaths : libexecMatch(fromPath, toPath)}]]

soRule(f, toFile) == f.path \in PathRules[toFile.path].so

libexecRule(f, toFile) == f.path \in PathRules[toFile.path].libexec

toAliasRule(f, toFile) ==
  /\ toFile.path \in DOMAIN toAliases
  /\ \E a \in Range(toAliases[toFile.path]) : a = f.path

fromAliasRule(f, toFile) ==
  /\ f.path \in DOMAIN fromAliases
  /\ \E a \in Range(fromAliases[f.path]) : a = toFile.path

isCandidate(f, toFile) ==
  \/ exactPathRule(f, toFile)
  \/ soRule(f, toFile)
  \/ libexecRule(f, toFile)
  \/ toAliasRule(f, toFile)
  \/ fromAliasRule(f, toFile)

\* fromFiles.filter(f => f.isFile).filter(f => ...): the raw candidates
rawCandidates(toFile) ==
  SelectSeq(fromRegular, LAMBDA f : isCandidate(f, toFile))

\* if (fromFile.length > 1) { filteredFrom ... }: the candidates after it
filteredFrom(fromFile, toFile) ==
  SelectSeq(fromFile, LAMBDA f : f.path = toFile.path)

\* narrowed without the filter on the path
narrowed_Unfiltered(fromFile, toFile) == fromFile

narrowed(fromFile, toFile) ==
  IF Len(fromFile) > 1 /\ Len(filteredFrom(fromFile, toFile)) = 1
    THEN filteredFrom(fromFile, toFile)
    ELSE fromFile

\* whether console.log(`Found more then one from file match: ...`) runs
warns(fromFile, toFile) ==
  Len(fromFile) > 1 /\ Len(filteredFrom(fromFile, toFile)) # 1

PathsOf(s) == [k \in DOMAIN s |-> s[k].path]

NewFile(toFile, cr) == [type |-> "NEW", to |-> toFile, compressorResult |-> cr]
RemovedFile(f, cr) == [type |-> "REMOVED", from |-> f, compressorResult |-> cr]
SameFile(f, toFile, cr) ==
  [type |-> "SAME", from |-> f, to |-> toFile, compressorResult |-> cr]
\* UpdatedFile with the difference taken the other way round
UpdatedFile_Reversed(f, toFile, cr) ==
  [type |-> "UPDATED", from |-> f, to |-> toFile, sizeDiff |-> f.size - toFile.size,
   compressorResult |-> cr]
UpdatedFile(f, toFile, cr) ==
  [type |-> "UPDATED", from |-> f, to |-> toFile, sizeDiff |-> toFile.size - f.size,
   compressorResult |-> cr]

\* The FileChange one iteration of the compare loop pushes
classify(fromFile, toFile, cr) ==
  IF Len(fromFile) = 0 THEN NewFile(toFile, cr)
  ELSE IF sha1File(fromFile[1]) = sha1File(toFile) THEN SameFile(fromFile[1], toFile, cr)
  ELSE UpdatedFile(fromFile[1], toFile, cr)

\* The wrapper calls of one iteration of the compare loop
comparePlan(fromFile, toFile) ==
  ZstdPlan(sha1File(toFile)[2])
  \o When(Len(fromFile) > 0 /\ sha1File(fromFile[1]) # sha1File(toFile),
          UpdatedPlan(sha1File(fromFile[1])[2], sha1File(toFile)[2]))

\* sha1File whose read stream never emits an error
hashFails_Never(side, file) == FALSE

\* Whether the read stream of sha1File(file.fullPath) emits an error, which
\* rejects the promise main awaits
hashFails(side, file) == <<side, file.path>> \in unreadable

\* Compare toFiles to fromFiles: one iteration. Both files are hashed before
\* the first wrapper is called
CompareToFile ==
  /\ pc = "compare"
  /\ LET toFile == toRegular[idx]
         raw == rawCandidates(toFile)
         fromFile == narrowed(raw, toFile)
         rejected == \/ Len(fromFile) > 0 /\ hashFails("from", fromFile[1])
                     \/ hashFails("to", toFile)
         plan == IF rejected THEN <<>> ELSE comparePlan(fromFile, toFile)
     IN  /\ log' = IF warns(raw, toFile) THEN Append(log, PathsOf(raw)) ELSE log
         /\ \E failAt \in 0..Len(plan) :
              LET r == Run(plan, failAt)
              IN  /\ cache' = r.cache
                  /\ calls' = calls \o r.calls
                  /\ IF r.failed \/ rejected
                       THEN /\ pc' = "failed"
                            /\ UNCHANGED <<fileChanges, idx>>
                       ELSE /\ fileChanges' =
                                 Append(fileChanges, classify(fromFile, toFile, r.compressorResult))
                            /\ pc' = IF idx < Len(toRegular) THEN "compare"
                                     ELSE Position("removed")
                            /\ idx' = IF idx < Len(toRegular) THEN idx + 1 ELSE 1
  /\ UNCHANGED <<fromFiles, toFiles, toAliases, fromAliases, use>>
  /\ UNCHANGED <<inputVars, listerVars, runVars, wrapperVars>>

\* sameOrUpdated that looks for SAME only
sameOrUpdated_SameOnly(fromFile) ==
  \E k \in DOMAIN fileChanges :
    fileChanges[k].type = "SAME" /\ fileChanges[k].from.path = fromFile.path

\* fileChanges.find(f => (SAME || UPDATED) && f.from.path == fromFile.path)
sameOrUpdated(fromFile) ==
  \E k \in DOMAIN fileChanges :
    /\ fileChanges[k].type \in {"SAME", "UPDATED"}
    /\ fileChanges[k].from.path = fromFile.path

\* Find all removed files: one iteration
FindRemoved ==
  /\ pc = "removed"
  /\ LET fromFile == fromRegular[idx]
         rejected == ~sameOrUpdated(fromFile) /\ hashFails("from", fromFile)
         plan == When(~sameOrUpdated(fromFile) /\ ~rejected,
                      ZstdPlan(sha1File(fromFile)[2]))
     IN  \E failAt \in 0..Len(plan) :
           LET r == Run(plan, failAt)
           IN  /\ cache' = r.cache
               /\ calls' = calls \o r.calls
               /\ IF r.failed \/ rejected
                    THEN /\ pc' = "failed"
                         /\ UNCHANGED <<fileChanges, idx>>
                    ELSE /\ fileChanges' =
                              IF sameOrUpdated(fromFile) THEN fileChanges
                              ELSE Append(fileChanges, RemovedFile(fromFile, r.compressorResult))
                         /\ pc' = IF idx < Len(fromRegular) THEN "removed" ELSE "print"
                         /\ idx' = IF idx < Len(fromRegular) THEN idx + 1 ELSE 1
  /\ UNCHANGED <<fromFiles, toFiles, toAliases, fromAliases, log, use>>
  /\ UNCHANGED <<inputVars, listerVars, runVars, wrapperVars>>

Start ==
  /\ toAliases = <<>>
  /\ fromAliases = <<>>
  /\ fileChanges = <<>>
  /\ log = <<>>
  /\ calls = <<>>
  /\ pc = "aliases"
  /\ idx = 1

\* No call of listFolder is followed step by step
NotListing ==
  /\ fs = <<>>
  /\ dirs = <<>>
  /\ results = <<>>
  /\ walk = "idle"
  /\ visited = <<>>

\* The external tool a backend runs: zstd and zstdDelta both run zstd
ToolOfBackend(b) == IF b = "zstdDelta" THEN "zstd" ELSE b

\* Probes that start every has*() whatever the flags are
Probes_Unconditional ==
  <<"hasBsdiff", "hasVciff", "hasCourgette", "hasZucchini", "hasZstd", "hasZstd",
    "hasUnsquashfs", "hasCpio">>

\* const useX = flags.useX && (await hasX()): the has*() calls main makes, in
\* order; && does not evaluate hasX() when the flag is not set
Probes ==
  When("bsdiff" \in flags, <<"hasBsdiff">>)
  \o When("vcdiff" \in flags, <<"hasVciff">>)
  \o When("courgette" \in flags, <<"hasCourgette">>)
  \o When("zucchini" \in flags, <<"hasZucchini">>)
  \o When("zstd" \in flags, <<"hasZstd">>)
  \o When("zstdDelta" \in flags, <<"hasZstd">>)
  \o <<"hasUnsquashfs", "hasCpio">>

\* useX: the flag is set and the probe has found the tool
Available == {b \in flags : ToolOfBackend(b) \in installed}

\* The comparison of a run over two images, every file readable, once the
\* images are extracted and the trees listed
Compared ==
  /\ args = <<"image", "image">>
  /\ groups = <<>>
  /\ platform = "linux"
  /\ flags = use
  /\ installed = use
  /\ unreadable = {}
  /\ trace = <<"mkdir">> \o Probes \o <<"extract", "extract">>
  /\ report = <<>>
  /\ run = 1
  /\ first = <<>>
  /\ dir = <<>>
  /\ procs = NoCalls
  /\ NotListing

\* Every use* flag defaults to false: no backend runs, the cache stays empty
Init ==
  /\ \/ BoundedTrees(fromFiles, toFiles)
     \/ \E t \in ExampleTrees : fromFiles = t[1] /\ toFiles = t[2]
  /\ use = {}
  /\ cache = <<>>
  /\ Start
  /\ Compared

\* Runs with backends enabled, over a cache directory an earlier run may
\* have left artifacts in
StaleArtifacts ==
  {ArtifactPath(<<"c1">>, "zstd"), ArtifactPath(<<"c1", "c2">>, "bsdiff"),
   ArtifactPath(<<"c1", "c2">>, "vcdiff"), ArtifactPath(<<"c1", "c2">>, "vcdiff.zstd")}
StaleSizes == {9}

InitBackends ==
  /\ \E t \in BackendTrees : fromFiles = t[1] /\ toFiles = t[2]
  /\ use \in SUBSET {"zstd", "bsdiff", "vcdiff"}
  /\ \E present \in SUBSET StaleArtifacts : cache \in [present -> StaleSizes]
  /\ Start
  /\ Compared

Next == BuildAliases \/ CompareToFile \/ FindRemoved

Spec == Init /\ [][Next]_vars

SpecBackends == InitBackends /\ [][Next]_vars

\* Concurrent runs inside the wrappers, on a cache directory that starts empty
InitWrappers ==
  /\ fromFiles = <<>> /\ toFiles = <<>>
  /\ use = {}
  /\ cache = <<>>
  /\ Start
  /\ Compared

NextWrappers ==
  \E p \in Runs :
    \/ CallWrapper(p)
    \/ Lstat(p)
    \/ ToolWrites(p)
    \/ ToolExits(p)
    \/ Rename(p)
    \/ StatReturn(p)
    \/ WriteFile(p)
    \/ ReadFile(p)
    \/ Kill(p)

SpecWrappers == InitWrappers /\ [][NextWrappers]_vars

\* runDiffCommand, bsdiff and zstd called with options.overwrite, on a cache
\* directory that starts empty: the first call for an artifact makes it
NextOverwrite ==
  \E p \in Runs :
    \/ CallOverwrite(p)
    \/ Lstat(p)
    \/ ToolWrites(p)
    \/ ToolExits(p)
    \/ Rename(p)
    \/ StatReturn(p)
    \/ Kill(p)

SpecOverwrite == InitWrappers /\ [][NextOverwrite]_vars

(***************************************************************************)
(* main: from the command line to the listing of the two trees             *)
(***************************************************************************)

\* Patterns given with --group: words without regular expression operators,
\* and "(", which is no regular expression
Unterminated == <<"(">>
Foo == <<"f", "o", "o">>
GroupPatterns == {Libfoo, Foo, Helper, Unterminated}

\* new RegExp(g) accepts every pattern
Malformed_Never(g) == FALSE

\* new RegExp(g) throws a SyntaxError
Malformed(g) == g = Unterminated

\* path.match(groupRegex) !== null, for a pattern that is a word: the word
\* occurs in the path
Occurs(path, g) == \E i \in 1..Len(path) : OccursAt(path, g, i)
MatchTable == [path \in AllPaths |-> {g \in GroupPatterns : ~Malformed(g) /\ Occurs(path, g)}]
matches(path, g) == g \in MatchTable[path]

\* The backends a run can enable
Enabled == {"zstd", "bsdiff", "vcdiff"}

\* The exit code of the process: main().catch calls process.exit(255); when
\* main returns, the process ends with code 0, whatever main returned
ExitCode ==
  CASE pc = "failed" -> 255
    [] pc \in {"done", "usage"} -> 0
    [] OTHER -> Null

\* main, from the parsing of the command line to the probes of the tools
Prologue ==
  /\ pc = "start"
  /\ IF Len(args) # 2
       THEN \* yargs.showHelp(); return 255
            /\ pc' = "usage"
            /\ UNCHANGED <<trace, use>>
     ELSE IF \E k \in DOMAIN groups : Malformed(groups[k])
       THEN \* flags.group.map(g => new RegExp(g)) throws
            /\ pc' = "failed"
            /\ UNCHANGED <<trace, use>>
     ELSE /\ trace' = trace \o <<"mkdir">> \o Probes
          /\ use' = Available
          /\ pc' = "images"
  /\ UNCHANGED <<fromFiles, toFiles, toAliases, fromAliases, fileChanges, log,
                 cache, calls, idx, report, run, first>>
  /\ UNCHANGED <<inputVars, listerVars, wrapperVars>>

\* sha1File(rootfsPath) of the k-th image
ImageDigest(k) == IF k = 1 THEN "i1" ELSE "i2"

\* Handle that MacOS wipes the files but not the folders in tmp: the
\* extracted tree is removed when it has no .cache file or is newer than it,
\* and the .cache file is written with the newest mtime of the removed tree.
\* The number the cache directory keeps for an extracted tree stands for its
\* newest mtime, which the tool restores from the image
darwinWipe(c, digest) ==
  LET rootfsCachePath == ArtifactPath(<<digest>>, "rootfs")
      cacheFile == ArtifactPath(<<digest>>, "rootfs.cache")
  IN  IF /\ platform = "darwin"
         /\ rootfsCachePath \in DOMAIN c
         /\ (cacheFile \notin DOMAIN c \/ c[rootfsCachePath] > c[cacheFile])
        THEN [q \in (DOMAIN c \ {rootfsCachePath}) \cup {cacheFile} |->
                IF q = cacheFile THEN c[rootfsCachePath] ELSE c[q]]
        ELSE c

\* The iteration of the loop over flags.images for the k-th path: an image
\* is extracted, a directory is taken as it is
extractImage(acc, k, toolOk) ==
  IF acc.failed \/ args[k] # "image" THEN acc
  ELSE RunPlan([acc EXCEPT !.cache = darwinWipe(@, ImageDigest(k))],
               <<Call("UNSQUASHFS", <<ImageDigest(k)>>, "rootfs")>>, 1,
               IF toolOk THEN 0 ELSE 1)

\* The images pushed by the loop
images == SelectSeq(<<1, 2>>, LAMBDA k : args[k] = "image")

\* Do image compression: the wrapper calls on the two images
ImagePlan ==
  When("bsdiff" \in use, <<Call("BS_DIFF", <<"i1", "i2">>, "image.bsdiff")>>)
  \o When("vcdiff" \in use,
          <<Call("VC_DIFF", <<"i1", "i2">>, "image.vcdiff")>>
          \o When("zstd" \in use, <<Call("VC_DIFF_ZSTD", <<"i1", "i2">>, "image.vcdiff.zstd")>>))
  \o When("zstdDelta" \in use, <<Call("ZSTD_DIFF", <<"i1", "i2">>, "image.zstddiff")>>)

\* main, from the loop over flags.images to listFolder of the two paths.
\* failAt: the call whose tool exits with an error (0: none does).
\* sha1File(fromImage) and sha1File(toImage) read images[0] and images[1]:
\* with fewer than two images the path is undefined and the promise rejects
ImagePhase ==
  /\ pc = "images"
  /\ \E failAt \in 0..(2 + Len(ImagePlan)) :
       LET start == [cache |-> cache, calls |-> <<>>, compressorResult |-> <<>>,
                     failed |-> FALSE]
           one == extractImage(start, 1, failAt # 1)
           two == extractImage(one, 2, failAt # 2)
           done == IF two.failed \/ Len(images) < 2 THEN two
                   ELSE RunPlan(two, ImagePlan, 1, IF failAt > 2 THEN failAt - 2 ELSE 0)
       IN  /\ cache' = done.cache
           /\ calls' = calls \o done.calls
           /\ IF done.failed \/ Len(images) < 2
                THEN /\ pc' = "failed"
                     /\ trace' = trace \o [k \in 1..Len(SelectSeq(done.calls,
                                                LAMBDA c : c.path.ext = "rootfs")) |-> "extract"]
                ELSE /\ pc' = "aliases"
                     /\ trace' = trace \o <<"extract", "extract", "walk", "walk">>
  /\ UNCHANGED <<fromFiles, toFiles, toAliases, fromAliases, fileChanges, log, use,
                 idx, report, run, first>>
  /\ UNCHANGED <<inputVars, listerVars, wrapperVars>>

(***************************************************************************)
(* main: the report                                                        *)
(***************************************************************************)

\* enum CompressorType, in the order of its members
CompressorType ==
  <<"ZSTD", "ZSTD_DIFF", "GZIP", "BS_DIFF", "VC_DIFF", "VC_DIFF_ZSTD", "COURGETTE",
    "COURGETTE_ZSTD", "ZUCCHINI", "ZUCCHINI_ZSTD">>

\* .reduce((a, c) => a + c, 0)
RECURSIVE sumFrom(_, _)
sumFrom(s, k) == IF k > Len(s) THEN 0 ELSE s[k] + sumFrom(s, k + 1)
sum(s) == sumFrom(s, 1)

\* file.compressorResult.find(c => c.type === type)?.size ?? 0
compressedSize(change, type) ==
  LET found == SelectSeq(change.compressorResult, LAMBDA c : c.type = type)
  IN  IF Len(found) > 0 THEN found[1].size ELSE 0

\* The figures appended for the compressor types whose size is not 0
nonZero(sizes) ==
  SelectSeq([k \in DOMAIN CompressorType |-> <<CompressorType[k], sizes[k]>>],
            LAMBDA e : e[2] # 0)

\* diffStats of one file
diffStats(change) ==
  nonZero([k \in DOMAIN CompressorType |-> compressedSize(change, CompressorType[k])])

\* The total of a compressor type over some changes
totalCompressed(changes, type) ==
  sum([k \in DOMAIN changes |-> compressedSize(changes[k], type)])

\* fileChanges.filter(f => f.type === type)
ofType(types) == SelectSeq(fileChanges, LAMBDA f : f.type \in types)

\* The file a pass prints for a change: its "to" side, or its "from" side
\* in the pass over the removed files
fileOf(change, pass) == IF pass = "removed" THEN change.from ELSE change.to

\* The figures a pass prints after the size of one file
fileStats(change, pass) ==
  IF pass = "to"
    THEN (IF change.type = "UPDATED" THEN << <<"size-diff", change.sizeDiff>> >> ELSE <<>>)
         \o diffStats(change)
    ELSE << <<"ZSTD", compressedSize(change, "ZSTD")>> >>

fileLine(change, pass) ==
  [path |-> fileOf(change, pass).path, size |-> fileOf(change, pass).size,
   stats |-> fileStats(change, pass)]

\* The figures a pass prints after the total size of a group
groupStats(found, pass) ==
  IF pass = "to"
    THEN nonZero([k \in DOMAIN CompressorType |-> totalCompressed(found, CompressorType[k])])
    ELSE << <<"ZSTD", totalCompressed(found, "ZSTD")>> >>

\* found.length > 0: the lines of group k
groupLines(k, found, pass) ==
  [index |-> k, group |-> groups[k],
   size |-> sum([i \in DOMAIN found |-> fileOf(found[i], pass).size]),
   stats |-> groupStats(found, pass),
   files |-> [i \in DOMAIN found |-> fileLine(found[i], pass)]]

\* The keys an object literal inherits from Object.prototype, among the
\* paths of the model
PrototypeKeys == {Root_toString}

\* groupNewSeen[path], read as a condition: the map is an object literal, so
\* a path that is an inherited key reads as a function, which is truthy
seenBefore(seen, path) == path \in seen \/ path \in PrototypeKeys

\* groupNewSeen[file.to.path] = true, for every file found
markSeen(seen, found, pass) == seen \cup {fileOf(found[i], pass).path : i \in DOMAIN found}

\* for (const groupRegex of groups): the groups of one pass from group k on,
\* and its seen map
RECURSIVE groupPass(_, _, _, _, _)
groupPass(changes, pass, k, seen, printed) ==
  IF k > Len(groups) THEN [printed |-> printed, seen |-> seen]
  ELSE LET found == SelectSeq(changes, LAMBDA f :
                      /\ ~seenBefore(seen, fileOf(f, pass).path)
                      /\ matches(fileOf(f, pass).path, groups[k]))
       IN  groupPass(changes, pass, k + 1, markSeen(seen, found, pass),
                     IF Len(found) > 0 THEN Append(printed, groupLines(k, found, pass))
                     ELSE printed)

\* .sort((a, b) => b.to.size - a.to.size): by size, largest first, stable
RECURSIVE sortBySize(_, _, _, _)
sortBySize(changes, pass, k, sorted) ==
  IF k > Len(changes) THEN sorted
  ELSE LET n == Cardinality({i \in DOMAIN sorted :
                   fileOf(sorted[i], pass).size >= fileOf(changes[k], pass).size})
       IN  sortBySize(changes, pass, k + 1,
                      SubSeq(sorted, 1, n) \o <<changes[k]>> \o SubSeq(sorted, n + 1, Len(sorted)))

\* singleNewFiles, singleRemovedFiles: the files of a pass no group has seen
singleFiles(changes, pass, seen) ==
  sortBySize(SelectSeq(changes, LAMBDA f : ~seenBefore(seen, fileOf(f, pass).path)),
             pass, 1, <<>>)

\* size and zstd size of some changes
sizes(changes, pass) ==
  [size |-> sum([i \in DOMAIN changes |-> fileOf(changes[i], pass).size]),
   zstd |-> totalCompressed(changes, "ZSTD")]

\* The totals of the single removed files taken from the single new files
singleRemovedTotals_OfNewFiles(singleNewFiles, singleRemovedFiles) ==
  sizes(singleNewFiles, "new")

\* singleRemovedFilesSize, singleRemovedFilesZstdSize
singleRemovedTotals(singleNewFiles, singleRemovedFiles) ==
  sizes(singleRemovedFiles, "removed")

\* One line of "Updated files:"
updatedLine(change) ==
  [path |-> change.to.path,
   fromPath |-> IF change.from.path # change.to.path THEN change.from.path ELSE <<>>,
   fromSize |-> change.from.size, toSize |-> change.to.size,
   stats |-> << <<"size-diff", change.sizeDiff>> >> \o diffStats(change)]

\* totalDiffSize without the updated files
totalDiffSize_NewOnly(totalUpdatedToSize, totalNewFilesSize) == totalNewFilesSize

totalDiffSize(totalUpdatedToSize, totalNewFilesSize) ==
  totalUpdatedToSize + totalNewFilesSize

\* totalDiffCompressorStats: per compressor type the total over the updated
\* files, skipped when 0, plus the zstd total of the new files for the types
\* other than ZSTD
totalDiffCompressorStats ==
  LET total(type) ==
        LET updated == totalCompressed(ofType({"UPDATED"}), type)
        IN  IF updated = 0 \/ type = "ZSTD" THEN updated
            ELSE updated + totalCompressed(ofType({"NEW"}), "ZSTD")
  IN  nonZero([k \in DOMAIN CompressorType |-> total(CompressorType[k])])

\* Everything main prints from "Grouped new files:" to "total diff size"
Report ==
  LET new == groupPass(ofType({"NEW"}), "new", 1, {}, <<>>)
      removed == groupPass(ofType({"REMOVED"}), "removed", 1, {}, <<>>)
      to == groupPass(ofType({"NEW", "SAME", "UPDATED"}), "to", 1, {}, <<>>)
      singleNewFiles == singleFiles(ofType({"NEW"}), "new", new.seen)
      singleRemovedFiles == singleFiles(ofType({"REMOVED"}), "removed", removed.seen)
      updated == ofType({"UPDATED"})
      totalUpdatedFromSize == sum([i \in DOMAIN updated |-> updated[i].from.size])
      totalUpdatedToSize == sum([i \in DOMAIN updated |-> updated[i].to.size])
  IN  [groupedNew |-> new.printed,
       singleNew |-> [i \in DOMAIN singleNewFiles |-> fileLine(singleNewFiles[i], "new")],
       groupedRemoved |-> removed.printed,
       singleRemoved |->
         [i \in DOMAIN singleRemovedFiles |-> fileLine(singleRemovedFiles[i], "removed")],
       updated |-> [i \in DOMAIN updated |-> updatedLine(updated[i])],
       groupedTo |-> to.printed,
       totals |->
         [same |-> sum([i \in DOMAIN ofType({"SAME"}) |-> ofType({"SAME"})[i].to.size]),
          new |-> sizes(ofType({"NEW"}), "new"),
          newGrouped |-> sizes(SelectSeq(ofType({"NEW"}),
                                        LAMBDA f : seenBefore(new.seen, f.to.path)), "new"),
          newSingle |-> sizes(singleNewFiles, "new"),
          removed |-> sizes(ofType({"REMOVED"}), "removed"),
          removedGrouped |->
            sizes(SelectSeq(ofType({"REMOVED"}),
                            LAMBDA f : seenBefore(removed.seen, f.from.path)), "removed"),
          removedSingle |-> singleRemovedTotals(singleNewFiles, singleRemovedFiles),
          updated |-> [from |-> totalUpdatedFromSize, to |-> totalUpdatedToSize,
                       sizeDiff |-> totalUpdatedToSize - totalUpdatedFromSize,
                       stats |-> groupStats(updated, "to")],
          diff |-> [size |-> totalDiffSize(totalUpdatedToSize, sum([i \in DOMAIN ofType({"NEW"}) |-> ofType({"NEW"})[i].to.size])),
                    stats |-> totalDiffCompressorStats]]]

\* Print changes: the report, once every file is classified; main returns 0
PrintReport ==
  /\ pc = "print"
  /\ report' = <<Report>>
  /\ pc' = "done"
  /\ UNCHANGED <<fromFiles, toFiles, toAliases, fromAliases, fileChanges, log, use,
                 cache, calls, idx, trace, run, first>>
  /\ UNCHANGED <<inputVars, listerVars, wrapperVars>>

\* The program is run again on the same images, with the same flags, over
\* the cache directory the completed first run has left
Rerun ==
  /\ pc = "done"
  /\ run = 1
  /\ run' = 2
  /\ first' = <<[fileChanges |-> fileChanges, report |-> report[1]]>>
  /\ toAliases' = <<>>
  /\ fromAliases' = <<>>
  /\ fileChanges' = <<>>
  /\ log' = <<>>
  /\ use' = {}
  /\ calls' = <<>>
  /\ pc' = "start"
  /\ idx' = 1
  /\ trace' = <<>>
  /\ report' = <<>>
  /\ UNCHANGED <<fromFiles, toFiles, cache>>
  /\ UNCHANGED <<inputVars, listerVars, wrapperVars>>

(***************************************************************************)
(* Whole runs                                                              *)
(***************************************************************************)

\* The longest list of --group patterns
MaxGroups == 2
GroupLists == UNION {[1..n -> GroupPatterns] : n \in 0..MaxGroups}

\* flags.images: two paths, each an image file or a directory, or one path
ArgLists == [1..2 -> {"image", "dir"}] \cup {<<"image">>}

\* The files whose read stream may emit an error
Unreadables ==
  {<<"to", Libfoo_so_2>>, <<"from", Libfoo_so_1>>, <<"from", Usr_libexec_helper>>}

\* Trees with a file named like a method of every object, at the root of
\* the tree; main looks up no alias of such a path in these trees
PrototypeTrees ==
  UNION {{<< <<>>, <<RegularFile(Root_toString, c)>> >>,
          << <<>>, <<RegularFile(Root_toString, c), RegularFile(Libfoo_so_2, "c1")>> >>,
          << <<RegularFile(Root_toString, "c1")>>, <<RegularFile(Root_toString, c)>> >>,
          << <<RegularFile(Root_toString, c)>>, <<>> >>} : c \in {"c1", "c2"}}

\* Trees with two new, or two removed, files that match the same patterns,
\* listed in either order of size
SizeTrees ==
  UNION {{<< <<>>, <<RegularFile(Libfoo_so_1, a), RegularFile(Libfoo_so_2, b)>> >>,
          << <<RegularFile(Libfoo_so_1, a), RegularFile(Libfoo_so_2, b)>>, <<>> >>}
         : a \in {"c1", "c2"}, b \in {"c1", "c2"}}

RunTrees == BackendTrees \cup PrototypeTrees \cup SizeTrees

\* A run from the command line, over an empty cache directory. The runs
\* vary the group patterns, or the backends and the platform, or the
\* arguments, or the unreadable files
InitRun ==
  /\ \E t \in RunTrees : fromFiles = t[1] /\ toFiles = t[2]
  /\ \/ /\ groups \in GroupLists
        /\ flags \in {{}, {"zstd"}} /\ installed = flags
        /\ platform = "linux"
        /\ args = <<"image", "image">>
        /\ unreadable = {}
     \/ /\ groups = <<Libfoo>>
        /\ flags \in SUBSET Enabled
        /\ installed \in {Enabled, {"bsdiff", "vcdiff"}, {"zstd"}, {}}
        /\ platform \in {"linux", "darwin"}
        /\ args = <<"image", "image">>
        /\ unreadable = {}
     \/ /\ groups \in {<<>>, <<Unterminated>>}
        /\ flags = {} /\ installed = {}
        /\ platform = "linux"
        /\ args \in ArgLists
        /\ unreadable = {}
     \/ /\ groups = <<>>
        /\ flags \in {{}, {"zstd"}} /\ installed = flags
        /\ platform = "linux"
        /\ args = <<"image", "image">>
        /\ unreadable \in SUBSET Unreadables
     \/ /\ groups = <<>>
        /\ flags \in {{"zstdDelta"}, {"zstd", "zstdDelta"}}
        /\ installed \in {{"zstd"}, {}}
        /\ platform = "linux"
        /\ args = <<"image", "image">>
        /\ unreadable = {}
  /\ use = {}
  /\ cache = <<>>
  /\ toAliases = <<>>
  /\ fromAliases = <<>>
  /\ fileChanges = <<>>
  /\ log = <<>>
  /\ calls = <<>>
  /\ pc = "start"
  /\ idx = 1
  /\ trace = <<>>
  /\ report = <<>>
  /\ run = 1
  /\ first = <<>>
  /\ dir = <<>>
  /\ procs = NoCalls
  /\ NotListing

NextRun ==
  \/ Prologue
  \/ ImagePhase
  \/ BuildAliases
  \/ CompareToFile
  \/ FindRemoved
  \/ PrintReport
  \/ Rerun

SpecRun == InitRun /\ [][NextRun]_vars

(***************************************************************************)
(* The names of the artifacts                                              *)
(***************************************************************************)

\* The extensions main gives to the artifacts of the backends, as characters
Extensions ==
     "zstd" :> <<"z", "s", "t", "d">>
  @@ "bsdiff" :> <<"b", "s", "d", "i", "f", "f">>
  @@ "vcdiff" :> <<"v", "c", "d", "i", "f", "f">>
  @@ "vcdiff.zstd" :> <<"v", "c", "d", "i", "f", "f", ".", "z", "s", "t", "d">>
  @@ "zstddiff" :> <<"z", "s", "t", "d", "d", "i", "f", "f">>
  @@ "courgette" :> <<"c", "o", "u", "r", "g", "e", "t", "t", "e">>
  @@ "courgette.zstd" :> <<"c", "o", "u", "r", "g", "e", "t", "t", "e", ".", "z", "s", "t", "d">>
  @@ "zucchini" :> <<"z", "u", "c", "c", "h", "i", "n", "i">>
  @@ "zucchini.zstd" :> <<"z", "u", "c", "c", "h", "i", "n", "i", ".", "z", "s", "t", "d">>
  @@ "diffoscope" :> <<"d", "i", "f", "f", "o", "s", "c", "o", "p", "e">>
  @@ "image.bsdiff" :> <<"i", "m", "a", "g", "e", ".", "b", "s", "d", "i", "f", "f">>
  @@ "image.vcdiff" :> <<"i", "m", "a", "g", "e", ".", "v", "c", "d", "i", "f", "f">>
  @@ "image.vcdiff.zstd" :> <<"i", "m", "a", "g", "e", ".", "v", "c", "d", "i", "f", "f", ".", "z", "s", "t", "d">>
  @@ "image.zstddiff" :> <<"i", "m", "a", "g", "e", ".", "z", "s", "t", "d", "d", "i", "f", "f">>

\* sha1.toString('hex') of the contents the names are derived from: words of
\* hexadecimal digits, all of the same length
HexDigests == {<<"0", "a">>, <<"a", "0">>, <<"a", "a">>}

RECURSIVE join(_, _)
\* digests.join('-')
join(digests, k) ==
  IF k > Len(digests) THEN <<>>
  ELSE (IF k > 1 THEN <<"-">> ELSE <<>>) \o digests[k] \o join(digests, k + 1)

\* The name of an artifact without its extension
FileName_NoExtension(path) == <<"c", "/">> \o join(path.digests, 1)

\* `${diffCacheDir}/${fromFileSha1Sum}-${toFileSha1Sum}.bsdiff` and the like:
\* the file name of an artifact path, as characters
FileName(path) == <<"c", "/">> \o join(path.digests, 1) \o <<".">> \o Extensions[path.ext]

\* The artifact paths main derives: zstd of one file from its digest, every
\* other artifact from the digests of the from and the to file or image
Derivations ==
  {ArtifactPath(<<d>>, "zstd") : d \in HexDigests}
  \cup {ArtifactPath(<<fd, td>>, ext) :
          fd \in HexDigests, td \in HexDigests, ext \in DOMAIN Extensions \ {"zstd"}}

\* main derives the path of an artifact and hands it to the wrapper; the
\* paths of two calls are kept
DeriveName ==
  /\ Len(calls) < 2
  /\ \E path \in Derivations : calls' = Append(calls, [path |-> path, name |-> FileName(path)])
  /\ UNCHANGED <<fromFiles, toFiles, toAliases, fromAliases, fileChanges, log, use,
                 cache, pc, idx>>
  /\ UNCHANGED <<inputVars, listerVars, runVars, wrapperVars>>

InitNaming ==
  /\ fromFiles = <<>> /\ toFiles = <<>>
  /\ use = {}
  /\ cache = <<>>
  /\ Start
  /\ Compared

NextNaming == DeriveName

SpecNaming == InitNaming /\ [][NextNaming]_vars

(***************************************************************************)
(* listFolder. Here a path is a sequence of names, one per directory level *)
(***************************************************************************)

\* The names of the entries of a directory, in the order readdir gives them
Names == <<"a", "b">>

\* rootPath, an absolute path
Root == <<"r">>

\* readlink(filePath): an absolute or a relative path, as written in the link
Raw(abs, segs) == [abs |-> abs, segs |-> segs]
RawTargets ==
  {Raw(TRUE, <<"a">>), Raw(TRUE, <<"a", "b">>), Raw(TRUE, <<"a", "..", "b">>),
   Raw(FALSE, <<"b">>), Raw(FALSE, <<"..", "b">>), Raw(FALSE, <<"x">>)}

\* What lstat finds at a path: a regular file, a directory, a symbolic link,
\* or something else (a device, a fifo, a socket)
Node(kind, target) == [kind |-> kind, target |-> target]
NoTarget == Raw(FALSE, <<>>)
TopNodes ==
  {Node("file", NoTarget), Node("dir", NoTarget), Node("other", NoTarget)}
  \cup {Node("link", t) : t \in RawTargets}
ChildNodes ==
  {Node("file", NoTarget)}
  \cup {Node("link", t) : t \in {Raw(TRUE, <<"a">>), Raw(TRUE, <<"a", "b">>),
                                 Raw(TRUE, <<"a", "..", "b">>),
                                 Raw(FALSE, <<"b">>), Raw(FALSE, <<"..", "b">>)}}

\* The trees below the root: entries at the top, and entries in the
\* directories of the top
FileSystems ==
  LET Tops == UNION {[T -> TopNodes] : T \in SUBSET {Names[i] : i \in DOMAIN Names}}
      Slots(top) == {d \in DOMAIN top : top[d].kind = "dir"} \X {Names[i] : i \in DOMAIN Names}
      Tree(top, ch) ==
        [q \in {<<n>> : n \in DOMAIN top} \cup DOMAIN ch |->
           IF Len(q) = 1 THEN top[q[1]] ELSE ch[q]]
  IN  UNION {UNION {{Tree(top, ch) : ch \in [C -> ChildNodes]} : C \in SUBSET Slots(top)}
             : top \in Tops}

\* path.resolve of segments: "." is dropped, ".." drops the segment before
\* it, and stays at the root of the file system
RECURSIVE normalize(_, _, _)
normalize(segs, k, acc) ==
  IF k > Len(segs) THEN acc
  ELSE normalize(segs, k + 1,
                 CASE segs[k] = "." -> acc
                   [] segs[k] = ".." -> SubSeq(acc, 1, Len(acc) - 1)
                   [] OTHER -> Append(acc, segs[k]))

\* path.resolve(dir, file), dir being absolute
resolve(d, segs) == normalize(d \o segs, 1, <<>>)

\* path.relative(from, to) of two absolute paths
relative(from, to) ==
  LET same == {k \in 0..Len(from) : k <= Len(to) /\ SubSeq(from, 1, k) = SubSeq(to, 1, k)}
      common == CHOOSE k \in same : \A j \in same : j <= k
  IN  [i \in 1..(Len(from) - common) |-> ".."] \o SubSeq(to, common + 1, Len(to))

\* lstatAsync(filePath).catch(() => null): lstat does not follow a link
lstat(filePath) ==
  LET q == relative(Root, filePath)
  IN  IF q \in DOMAIN fs THEN <<fs[q]>> ELSE <<>>

\* readdirAsync(dir)
readdir(d) ==
  SelectSeq(Names, LAMBDA n : relative(Root, d) \o <<n>> \in DOMAIN fs)

\* symlinkPath: rawLinkPath.replace(/^\//, '') for an absolute link,
\* path.relative(rootPath, path.resolve(dir, rawLinkPath)) for a relative one
symlinkPath(d, rawLinkPath) ==
  IF rawLinkPath.abs THEN rawLinkPath.segs
  ELSE relative(Root, resolve(d, rawLinkPath.segs))

\* An entry of the results
Entry(filePath, d, node) ==
  [path |-> relative(Root, filePath),
   isFile |-> node.kind = "file",
   isSymbolicLink |-> node.kind = "link",
   symlinkPath |-> IF node.kind = "link" THEN symlinkPath(d, node.target) ELSE <<>>]

\* A walk that takes a symbolic link for a directory
RECURSIVE visit_FollowsLinks(_, _, _, _)
visit_FollowsLinks(d, files, k, acc) ==
  IF k > Len(files) THEN acc
  ELSE LET filePath == resolve(d, <<files[k]>>)
           fileStat == lstat(filePath)
       IN  visit_FollowsLinks(d, files, k + 1,
                 IF fileStat = <<>> THEN acc
                 ELSE IF fileStat[1].kind \in {"dir", "link"}
                   THEN [acc EXCEPT !.dirs = Append(@, filePath)]
                 ELSE IF fileStat[1].kind = "file"
                   THEN [acc EXCEPT !.results = Append(@, Entry(filePath, d, fileStat[1]))]
                 ELSE acc)

\* for (const file of await readdirAsync(dir)): the files from the k-th on
RECURSIVE visit(_, _, _, _)
visit(d, files, k, acc) ==
  IF k > Len(files) THEN acc
  ELSE LET filePath == resolve(d, <<files[k]>>)
           fileStat == lstat(filePath)
       IN  visit(d, files, k + 1,
                 IF fileStat = <<>> THEN acc
                 ELSE IF fileStat[1].kind = "dir"
                   THEN [acc EXCEPT !.dirs = Append(@, filePath)]
                 ELSE IF fileStat[1].kind \in {"file", "link"}
                   THEN [acc EXCEPT !.results = Append(@, Entry(filePath, d, fileStat[1]))]
                 ELSE acc)

\* listFolder(rootPath) is called
ListFolder ==
  /\ walk = "idle"
  /\ dirs' = <<Root>>
  /\ results' = <<>>
  /\ walk' = "walking"
  /\ UNCHANGED <<fs, visited, mainVars, inputVars, runVars, wrapperVars>>

\* while (dirs.length > 0): one directory is taken from the queue and read
ReadDir ==
  /\ walk = "walking"
  /\ Len(dirs) > 0
  /\ LET after == visit(Head(dirs), readdir(Head(dirs)), 1,
                        [dirs |-> Tail(dirs), results |-> results])
     IN  /\ dirs' = after.dirs
         /\ results' = after.results
  /\ visited' = Append(visited, Head(dirs))
  /\ UNCHANGED <<fs, walk, mainVars, inputVars, runVars, wrapperVars>>

\* return results
ReturnResults ==
  /\ walk = "walking"
  /\ Len(dirs) = 0
  /\ walk' = "done"
  /\ UNCHANGED <<fs, dirs, results, visited, mainVars, inputVars, runVars, wrapperVars>>

\* Before a call of listFolder on a tree
ListerStart ==
  /\ fromFiles = <<>> /\ toFiles = <<>>
  /\ use = {}
  /\ cache = <<>>
  /\ Start
  /\ args = <<"dir", "dir">>
  /\ groups = <<>>
  /\ platform = "linux"
  /\ flags = {}
  /\ installed = {}
  /\ unreadable = {}
  /\ trace = <<>>
  /\ report = <<>>
  /\ run = 1
  /\ first = <<>>
  /\ dir = <<>>
  /\ procs = NoCalls
  /\ dirs = <<>>
  /\ results = <<>>
  /\ walk = "idle"
  /\ visited = <<>>

InitLister == ListerStart /\ fs \in FileSystems

\* The trees made of directories and of links to directories, to
\* themselves and to one another
CycleTargets == {Raw(TRUE, <<"a">>), Raw(FALSE, <<"b">>), Raw(FALSE, <<"..", "b">>)}
LinkedFileSystems ==
  {f \in FileSystems :
     \A q \in DOMAIN f : f[q].kind = "dir" \/ (f[q].kind = "link" /\ f[q].target \in CycleTargets)}

InitLinked == ListerStart /\ fs \in LinkedFileSystems

NextLister == ListFolder \/ ReadDir \/ ReturnResults

SpecLister == InitLister /\ [][NextLister]_vars

\* The steps of ReadDir, told by the directory they read: ReadDir is enabled
\* whenever the queue of a running call is not empty
ReadDirTaken ==
  /\ walk = "walking"
  /\ Len(dirs) > 0
  /\ visited' = Append(visited, Head(dirs))

\* The walk goes on: every await of listFolder (readdir, lstat, readlink)
\* settles, and the loop has no other wait
SpecListerFair ==
  /\ InitLinked /\ [][NextLister]_vars
  /\ WF_vars(ListFolder) /\ WF_visited(ReadDirTaken) /\ WF_vars(ReturnResults)

(***************************************************************************)
(* The claims                                                              *)
(***************************************************************************)

\* The results of the loop over the "to" files, and the pairings among them
ToChanges == {k \in DOMAIN fileChanges : fileChanges[k].type \in {"NEW", "SAME", "UPDATED"}}
Pairings == {k \in DOMAIN fileChanges : fileChanges[k].type \in {"SAME", "UPDATED"}}
Removals == {k \in DOMAIN fileChanges : fileChanges[k].type = "REMOVED"}
PairingsOf(f) == {k \in Pairings : fileChanges[k].from.path = f.path}
RemovalsOf(f) == {k \in Removals : fileChanges[k].from.path = f.path}
HasExactPath(raw, toFile) == \E k \in DOMAIN raw : raw[k].path = toFile.path

\* C1: once both loops have run, every regular "to" file is the to-side of
\* exactly one New/Same/Updated result, every regular "from" file that is the
\* from-side of no Same/Updated result is Removed exactly once, and a "from"
\* file that is the from-side of one is not Removed.
C1_Partition ==
  pc = "print" =>
    /\ \A k \in DOMAIN toRegular :
         Cardinality({c \in ToChanges : fileChanges[c].to = toRegular[k]}) = 1
    /\ \A k \in DOMAIN fromRegular :
         Cardinality(RemovalsOf(fromRegular[k])) =
           IF PairingsOf(fromRegular[k]) = {} THEN 1 ELSE 0
    /\ Cardinality(ToChanges) = Len(toRegular)

C1_Witness ==
  /\ pc = "print"
  /\ \E k \in DOMAIN fromRegular :
       PairingsOf(fromRegular[k]) # {} /\ RemovalsOf(fromRegular[k]) = {}
  /\ \E k \in DOMAIN fromRegular :
       PairingsOf(fromRegular[k]) = {} /\ Cardinality(RemovalsOf(fromRegular[k])) = 1
  /\ \E c \in ToChanges : fileChanges[c].type = "UPDATED"

\* C2: in the final result no "from" file is the from-side of more than one
\* Same/Updated pairing: each regular "from" file is counted exactly once
\* among the from-sides of Removed and of Same/Updated.
C2_AtMostOnePredecessor ==
  pc = "print" =>
    \A k \in DOMAIN fromRegular :
      /\ Cardinality(PairingsOf(fromRegular[k])) <= 1
      /\ Cardinality(PairingsOf(fromRegular[k]))
           + Cardinality(RemovalsOf(fromRegular[k])) = 1

\* C3: a regular "to" file with more than one candidate, none of them at its
\* own path, is classified New, and a warning listing its candidates is
\* emitted.
C3_AmbiguousIsNew ==
  \A c \in ToChanges :
    LET toFile == fileChanges[c].to
        raw == rawCandidates(toFile)
    IN  (Len(raw) > 1 /\ ~HasExactPath(raw, toFile)) =>
          /\ fileChanges[c].type = "NEW"
          /\ \E w \in DOMAIN log : log[w] = PathsOf(raw)

\* C4: a "to" file with no candidate is New; with exactly one candidate it is
\* Same when the two digests are equal, and otherwise Updated with
\* sizeDiff = to.size - from.size.
C4_Classification ==
  \A c \in ToChanges :
    LET change == fileChanges[c]
        raw == rawCandidates(change.to)
    IN  /\ Len(raw) = 0 => change.type = "NEW"
        /\ Len(raw) = 1 =>
             IF raw[1].content = change.to.content
               THEN change.type = "SAME" /\ change.from = raw[1]
               ELSE /\ change.type = "UPDATED"
                    /\ change.from = raw[1]
                    /\ change.sizeDiff = SizeOf[change.to.content] - SizeOf[raw[1].content]

C4_Witness ==
  /\ \E c \in ToChanges :
       /\ Len(rawCandidates(fileChanges[c].to)) = 1
       /\ fileChanges[c].type = "UPDATED"
       /\ fileChanges[c].sizeDiff < 0
  /\ \E c \in ToChanges :
       Len(rawCandidates(fileChanges[c].to)) = 0 /\ fileChanges[c].type = "NEW"

\* The processed "to" files for which the warning condition holds
Ambiguous ==
  {c \in ToChanges :
     LET raw == rawCandidates(fileChanges[c].to)
     IN  Len(raw) > 1 /\ ~HasExactPath(raw, fileChanges[c].to)}

\* C5: a "to" file one of whose raw candidates has its own path is paired
\* with that candidate, whatever the other candidates and the listing order,
\* and no warning is emitted for it: warnings are emitted only for the files
\* with several candidates and none at their own path.
C5_ExactPathPreferred ==
  /\ \A c \in ToChanges :
       LET change == fileChanges[c]
       IN  HasExactPath(rawCandidates(change.to), change.to) =>
             /\ change.type \in {"SAME", "UPDATED"}
             /\ change.from.path = change.to.path
  /\ Len(log) = Cardinality(Ambiguous)

C5_Witness ==
  \E c \in ToChanges :
    LET change == fileChanges[c]
        raw == rawCandidates(change.to)
    IN  /\ Len(raw) > 1
        /\ raw[1].path # change.to.path
        /\ HasExactPath(raw, change.to)
        /\ change.from.path = change.to.path
        /\ log = <<>>

\* The suffix grammar of the specification, stated on the text: n groups of
\* "." and digits
IsDotted(s, n) ==
  /\ Len(s) > 0 => s[1] = "." /\ s[Len(s)] \in Digit
  /\ \A k \in DOMAIN s : s[k] \in Digit \cup {"."}
  /\ \A k \in 1..(Len(s) - 1) : ~(s[k] = "." /\ s[k + 1] = ".")
  /\ Cardinality({k \in DOMAIN s : s[k] = "."}) = n

\* -<digits>(.<digits>){0,3}.so or .so(.<digits>){1,3}
IsVersionSuffix(s) ==
  \/ /\ Len(s) >= 5
     /\ s[1] = "-"
     /\ SubSeq(s, Len(s) - 2, Len(s)) = <<".", "s", "o">>
     /\ \E n \in 1..4 : IsDotted(<<".">> \o SubSeq(s, 2, Len(s) - 3), n)
  \/ /\ Len(s) >= 5
     /\ SubSeq(s, 1, 3) = <<".", "s", "o">>
     /\ \E n \in 1..3 : IsDotted(SubSeq(s, 4, Len(s)), n)

\* fromPath and toPath are a common non-empty base followed by a version suffix
SameSoBase(fromPath, toPath) ==
  \E b \in 1..(Len(toPath) - 1) :
    /\ IsVersionSuffix(SubSeq(toPath, b + 1, Len(toPath)))
    /\ b < Len(fromPath)
    /\ SubSeq(fromPath, 1, b) = SubSeq(toPath, 1, b)
    /\ IsVersionSuffix(SubSeq(fromPath, b + 1, Len(fromPath)))

\* The pairs of paths of the model in that relation
SoRelated == {pq \in AllPaths \X AllPaths : SameSoBase(pq[1], pq[2])}

\* C6: every regular "from" file whose path is the base of a regular "to"
\* file's path followed by a version suffix is a candidate of that "to" file;
\* when it is the only candidate and the contents differ, the result is
\* Updated, pairing the two.
C6_VersionedSharedObject ==
  /\ \A t \in DOMAIN toRegular : \A f \in DOMAIN fromRegular :
       <<fromRegular[f].path, toRegular[t].path>> \in SoRelated =>
         \E k \in DOMAIN rawCandidates(toRegular[t]) :
           rawCandidates(toRegular[t])[k] = fromRegular[f]
  /\ \A c \in ToChanges :
       LET change == fileChanges[c]
           raw == rawCandidates(change.to)
       IN  (/\ Len(raw) = 1
            /\ <<raw[1].path, change.to.path>> \in SoRelated
            /\ raw[1].content # change.to.content) =>
             change.type = "UPDATED" /\ change.from = raw[1]

C6_Witness ==
  /\ \E c \in ToChanges :
       /\ fileChanges[c].type = "UPDATED"
       /\ fileChanges[c].from.path = Libfoo_so_1
       /\ fileChanges[c].to.path = Libfoo_2_0_so
  /\ Len(fromFiles) = 1

C6_WitnessUsr ==
  \E c \in ToChanges :
    /\ fileChanges[c].type = "UPDATED"
    /\ fileChanges[c].from.path = Usr_lib_libfoo_so_1
    /\ fileChanges[c].to.path = Usr_lib_libfoo_so_2

\* s with every occurrence of /libexec/ substituted by /lib/, left to right
RECURSIVE SubstituteLibexec(_)
SubstituteLibexec(s) ==
  IF Len(s) = 0 THEN s
  ELSE IF OccursAt(s, LibexecDir, 1)
    THEN LibDir \o SubstituteLibexec(SubSeq(s, Len(LibexecDir) + 1, Len(s)))
    ELSE <<s[1]>> \o SubstituteLibexec(SubSeq(s, 2, Len(s)))

\* The pairs of paths of the model that the substitution makes equal
LibexecRelated ==
  {pq \in AllPaths \X AllPaths : SubstituteLibexec(pq[1]) = SubstituteLibexec(pq[2])}

AmbiguityExample ==
  /\ Len(fromFiles) = 2
  /\ {fromFiles[1].path, fromFiles[2].path} = {A_libfoo_so_1, B_libfoo_so_2}
  /\ fromFiles[1].isFile /\ fromFiles[2].isFile
  /\ Len(toFiles) = 1
  /\ toFiles[1].path = Libfoo_so_3
  /\ toFiles[1].isFile

ExampleIsNewAndRemoved ==
  /\ Len(fileChanges) = 3
  /\ fileChanges[1].type = "NEW" /\ fileChanges[1].to = toFiles[1]
  /\ fileChanges[2].type = "REMOVED" /\ fileChanges[2].from = fromFiles[1]
  /\ fileChanges[3].type = "REMOVED" /\ fileChanges[3].from = fromFiles[2]

\* C8, as stated: from = {a/libfoo.so.1, b/libfoo.so.2}, to = {libfoo.so.3}:
\* the "to" file is New, both "from" files are Removed, and a warning naming
\* both "from" files is emitted.
C8_AmbiguityExample ==
  (pc = "print" /\ AmbiguityExample) =>
    /\ ExampleIsNewAndRemoved
    /\ \E w \in DOMAIN log :
         Range(log[w]) = {A_libfoo_so_1, B_libfoo_so_2}

\* C8, amended: in that example the "to" file is New and both "from" files
\* are Removed, and no warning is emitted: neither "from" path starts with
\* the base "libfoo", so the "to" file has no candidate.
C8_ExampleHasNoCandidate ==
  (pc = "print" /\ AmbiguityExample) =>
    /\ ExampleIsNewAndRemoved
    /\ log = <<>>
    /\ rawCandidates(toFiles[1]) = <<>>

C8_Witness == pc = "print" /\ AmbiguityExample /\ fromFiles[1].path = B_libfoo_so_2

\* C9: once the alias tables are built, (i) for a "to" symlink at P whose
\* target is the regular "to" file T, a regular "from" file at P is a
\* candidate of T; (ii) for a "from" symlink at P whose target is the regular
\* "from" file T, T is a candidate of a regular "to" file at P; whatever the
\* other symlinks of the two trees.
C9_AliasBothDirections ==
  pc # "aliases" =>
    /\ \A l \in DOMAIN toFiles : \A t \in DOMAIN toRegular : \A f \in DOMAIN fromRegular :
         (/\ toFiles[l].isSymbolicLink
          /\ toFiles[l].symlinkPath = toRegular[t].path
          /\ fromRegular[f].path = toFiles[l].path) =>
           \E k \in DOMAIN rawCandidates(toRegular[t]) :
             rawCandidates(toRegular[t])[k] = fromRegular[f]
    /\ \A l \in DOMAIN fromFiles : \A t \in DOMAIN toRegular : \A f \in DOMAIN fromRegular :
         (/\ fromFiles[l].isSymbolicLink
          /\ fromFiles[l].symlinkPath = fromRegular[f].path
          /\ toRegular[t].path = fromFiles[l].path) =>
           \E k \in DOMAIN rawCandidates(toRegular[t]) :
             rawCandidates(toRegular[t])[k] = fromRegular[f]

\* The number of calls that ran the external tool for an artifact path
ToolRuns(path) == Cardinality({k \in DOMAIN calls : calls[k].path = path /\ calls[k].tool})

\* C10: a wrapper called for a path at which an artifact exists returns that
\* artifact's size without running the external tool; within one run the
\* tool runs at most once for an artifact path, and a call that follows
\* another call for the same path does not run it.
C10_CacheHit ==
  /\ \A k \in DOMAIN calls :
       calls[k].present =>
         /\ ~calls[k].tool
         /\ calls[k].size = cache[calls[k].path]
         /\ calls[k].path \in StaleArtifacts \/ \E j \in 1..(k - 1) : calls[j].path = calls[k].path
  /\ \A k \in DOMAIN calls : \A j \in 1..(k - 1) :
       calls[j].path = calls[k].path => ~calls[k].tool /\ calls[k].size = calls[j].size
  /\ \A k \in DOMAIN calls : ToolRuns(calls[k].path) <= 1
  /\ \A path \in DOMAIN cache :
       cache[path] = IF ToolRuns(path) = 1 THEN ToolSize(path) ELSE CHOOSE z \in StaleSizes : TRUE

C10_Witness ==
  \E k \in DOMAIN calls : \E j \in 1..(k - 1) :
    /\ calls[j].path = calls[k].path
    /\ calls[j].path.ext = "bsdiff"
    /\ calls[j].tool /\ ~calls[j].present
    /\ calls[k].present /\ ~calls[k].tool
    /\ \E i \in DOMAIN calls : calls[i].present /\ calls[i].size \in StaleSizes

\* The temporary files of an artifact that no running call will rename
Orphans(ext) ==
  {f \in DOMAIN dir :
     /\ Len(f) = 3 /\ f[1] = ext /\ f[2] = "tmp"
     /\ LET owner == f[3][1]
        IN  procs[owner].n > f[3][2] \/ procs[owner].pc \in {"threw", "killed"}}

\* C11: the file at the final path of a delta or compression artifact is
\* never partly written; it appears there only by the rename of a complete
\* temporary file, which follows the tool's success, so a failed or killed
\* call leaves nothing there; a wrapper reports a hit only for a file at the
\* final path, and a call that finds no file there runs the tool again,
\* whatever temporary files were left behind.
C11_AtomicCacheWrite ==
  /\ [](\A ext \in DeltaArtifacts :
          Final(ext) \in DOMAIN dir => dir[Final(ext)] = "complete")
  /\ [](\A p \in Runs : procs[p].hit => Final(procs[p].ext) \in DOMAIN dir)
  /\ [][\A ext \in DeltaArtifacts :
          (Final(ext) \notin DOMAIN dir /\ Final(ext) \in DOMAIN dir') =>
            \E p \in Runs :
              /\ procs[p].pc = "rename" /\ procs'[p].pc = "stat"
              /\ procs[p].ext = ext
              /\ dir[TmpOf(p)] = "complete"]_vars
  /\ [][\A p \in Runs :
          (/\ procs[p].pc = "lstat" /\ procs'[p].pc \notin {"lstat", "killed"}
           /\ Final(procs[p].ext) \notin DOMAIN dir) =>
            procs'[p].pc = "exec" /\ ~procs'[p].hit]_vars

C11_Witness ==
  \E ext \in DeltaArtifacts : \E p \in Runs :
    /\ procs[p].pc = "exec" /\ procs[p].ext = ext /\ procs[p].n = 2
    /\ Final(ext) \notin DOMAIN dir
    /\ \E f \in Orphans(ext) : f[3] = <<p, 1>> /\ dir[f] = "partial"

\* C13: when runs share the cache directory, the file at the final path of
\* an artifact is at every moment a complete artifact, and no run reads a
\* partly written one there.
C13_ConcurrentRunsSafe ==
  /\ \A ext \in Artifacts : Final(ext) \in DOMAIN dir => dir[Final(ext)] = "complete"
  /\ \A p \in Runs : procs[p].read # "partial"

\* C12: a second run on the same trees, with the same backends, over the
\* cache directory of the completed first run, runs no diff, compression or
\* extraction tool, and ends with the classification and the report of the
\* first run
C12_Idempotent ==
  run = 2 =>
    /\ \A k \in DOMAIN calls : calls[k].present /\ ~calls[k].tool
    /\ pc = "done" =>
         /\ fileChanges = first[1].fileChanges
         /\ report[1] = first[1].report

\* A wrapper call whose tool ran and exited with an error
Failed(call) == call.tool /\ call.size = Null

\* The compressor types main records for a change with the backends in use
RecordedTypes(change) ==
  LET typesOf(plan) == [k \in DOMAIN plan |-> plan[k].type]
  IN  typesOf(ZstdPlan("")) \o When(change.type = "UPDATED", typesOf(UpdatedPlan("", "")))

\* C14: when an external tool runs and exits with an error, the wrapper
\* throws: nothing appears at the final path of its artifact, it is the last
\* call of the run, the run ends with exit code 255 without a report, and
\* the step records no change for the files it was working on; every change
\* that is recorded has an entry of positive size for each backend in use,
\* none missing and none 0
C14_BackendExecutionError ==
  /\ [](\A k \in DOMAIN calls :
          Failed(calls[k]) =>
            /\ k = Len(calls)
            /\ calls[k].path \notin DOMAIN cache
            /\ pc = "failed"
            /\ ExitCode = 255
            /\ report = <<>>)
  /\ [](\A k \in DOMAIN fileChanges :
          /\ [i \in DOMAIN fileChanges[k].compressorResult |->
                fileChanges[k].compressorResult[i].type] = RecordedTypes(fileChanges[k])
          /\ \A i \in DOMAIN fileChanges[k].compressorResult :
               fileChanges[k].compressorResult[i].size > 0)
  /\ [][(Len(calls') > Len(calls) /\ Failed(calls'[Len(calls')])) =>
          /\ fileChanges' = fileChanges
          /\ calls'[Len(calls')].path \notin DOMAIN cache']_vars

\* The bsdiff of an updated pair fails after other files have been classified
C14_Witness ==
  /\ pc = "failed"
  /\ Len(fileChanges) > 0
  /\ Len(calls) > 0
  /\ Failed(calls[Len(calls)])
  /\ calls[Len(calls)].path.ext = "bsdiff"
  /\ ExitCode = 255

\* The backends a compressor type needs
BackendsOf(type) ==
  CASE type = "ZSTD" -> {"zstd"}
    [] type = "BS_DIFF" -> {"bsdiff"}
    [] type = "VC_DIFF" -> {"vcdiff"}
    [] type = "VC_DIFF_ZSTD" -> {"vcdiff", "zstd"}
    [] type = "ZSTD_DIFF" -> {"zstdDelta"}
    [] OTHER -> {}

\* Every figure <<name, number>> of a printed report, name by name
Figures(r) ==
  LET ofLines(lines) == UNION {Range(lines[i].stats) : i \in DOMAIN lines}
      ofGroups(gs) == UNION {Range(gs[i].stats) \cup ofLines(gs[i].files) : i \in DOMAIN gs}
      zstdOf(t) == {<<"ZSTD", t.zstd>>}
  IN  ofGroups(r.groupedNew) \cup ofGroups(r.groupedRemoved) \cup ofGroups(r.groupedTo)
      \cup ofLines(r.singleNew) \cup ofLines(r.singleRemoved) \cup ofLines(r.updated)
      \cup zstdOf(r.totals.new) \cup zstdOf(r.totals.newGrouped) \cup zstdOf(r.totals.newSingle)
      \cup zstdOf(r.totals.removed) \cup zstdOf(r.totals.removedGrouped)
      \cup zstdOf(r.totals.removedSingle)
      \cup Range(r.totals.updated.stats) \cup Range(r.totals.diff.stats)

\* The backends whose flag is set and whose tool is not installed
Unavailable == {b \in flags : ToolOfBackend(b) \notin installed}

\* The backend whose tool a wrapper call on an artifact of this extension runs
ToolOf(ext) ==
  CASE ext \in {"zstd", "vcdiff.zstd", "image.vcdiff.zstd"} -> {"zstd"}
    [] ext \in {"bsdiff", "image.bsdiff"} -> {"bsdiff"}
    [] ext \in {"vcdiff", "image.vcdiff"} -> {"vcdiff"}
    [] ext \in {"zstddiff", "image.zstddiff"} -> {"zstdDelta"}
    [] OTHER -> {}

\* C15: a backend that is enabled and not installed does not end the run,
\* is never invoked, and no line of the report carries a figure for it:
\* its figures are absent, not 0
C15_UnavailableIsAbsent ==
  /\ \A k \in DOMAIN calls : ToolOf(calls[k].path.ext) \cap Unavailable = {}
  /\ pc = "done" =>
       \A f \in Figures(report[1]) :
         f[1] # "size-diff" => BackendsOf(f[1]) \cap Unavailable = {}

\* The regular files of the two trees whose read stream emits an error
UnreadableFiles ==
  {f \in Range(toRegular) : <<"to", f.path>> \in unreadable}
  \cup {f \in Range(fromRegular) : <<"from", f.path>> \in unreadable}

\* C16: when a regular file of either tree cannot be read, the run never
\* gets to the report: no section is printed, the run does not end with
\* exit code 0, and once main has been through its loops it has failed
\* with exit code 255
C16_IOErrorNoReport ==
  UnreadableFiles # {} =>
    /\ report = <<>>
    /\ pc \notin {"print", "done"}
    /\ ExitCode \in {Null, 255}
    /\ pc \notin {"start", "usage", "images", "aliases", "compare", "removed"} =>
         ExitCode = 255

\* The run fails on an unreadable file after it has classified another file
C16_Witness ==
  /\ UnreadableFiles # {}
  /\ pc = "failed"
  /\ Len(fileChanges) > 0
  /\ \A k \in DOMAIN calls : ~Failed(calls[k])
  /\ report = <<>>
  /\ ExitCode = 255

\* C17: with a --group pattern that is no regular expression, such as "(",
\* the run fails before any work:
\* the cache directory is not created, no tool is probed, no image is
\* extracted, no tree is walked, no wrapper is called and nothing is
\* reported; given two paths, main throws at once and the exit code is 255
C17_MalformedGroupFailsFirst ==
  /\ []((Unterminated \in Range(groups)) =>
          /\ trace = <<>>
          /\ calls = <<>>
          /\ cache = <<>>
          /\ fileChanges = <<>>
          /\ report = <<>>
          /\ pc \in {"start", "usage", "failed"}
          /\ Len(args) = 2 => pc \in {"start", "failed"})
  /\ [][(pc = "start" /\ Len(args) = 2 /\ Unterminated \in Range(groups)) =>
          (pc' = "failed" /\ ExitCode' = 255)]_vars

\* A run with a malformed second pattern has failed
C17_Witness ==
  /\ Len(groups) = 2
  /\ groups[1] = Libfoo
  /\ groups[2] = Unterminated
  /\ pc = "failed"
  /\ trace = <<>>
  /\ ExitCode = 255

\* C18: a run on two directories that are already extracted trees does not
\* fail: it lists both trees, classifies their files, prints the report
\* and ends with exit code 0
C18_DirectoryInputsSucceed ==
  (/\ args = <<"dir", "dir">>
   /\ Unterminated \notin Range(groups)
   /\ UnreadableFiles = {}) =>
    /\ pc # "failed"
    /\ ExitCode \in {Null, 0}
    /\ pc \notin {"start", "images"} => SelectSeq(trace, LAMBDA w : w = "walk") = <<"walk", "walk">>

\* The first pattern of the list a path matches (0: none)
FirstMatch(path) ==
  LET ks == {k \in DOMAIN groups : Occurs(path, groups[k])}
  IN  IF ks = {} THEN 0 ELSE CHOOSE k \in ks : \A j \in ks : k <= j

Passes == {"new", "removed", "to"}

\* The paths a pass groups: of the new files, of the removed files, of the
\* files of the "to" tree
Population(pass) ==
  LET types == CASE pass = "new" -> {"NEW"}
                 [] pass = "removed" -> {"REMOVED"}
                 [] OTHER -> {"NEW", "SAME", "UPDATED"}
  IN  {IF pass = "removed" THEN c.from.path ELSE c.to.path :
         c \in {c \in Range(fileChanges) : c.type \in types}}

\* The groups a pass has printed, and its list of ungrouped files; the pass
\* over the files of the "to" tree prints no such list
Grouped(r, pass) ==
  CASE pass = "new" -> r.groupedNew
    [] pass = "removed" -> r.groupedRemoved
    [] OTHER -> r.groupedTo
Remainder(r, pass) ==
  CASE pass = "new" -> r.singleNew
    [] pass = "removed" -> r.singleRemoved
    [] OTHER -> <<>>

\* Where a path is printed by a pass: under which groups, and in the remainder
PlacesIn(r, pass, path) ==
  UNION {{<<i, j>> : j \in {j \in DOMAIN Grouped(r, pass)[i].files :
                              Grouped(r, pass)[i].files[j].path = path}}
         : i \in DOMAIN Grouped(r, pass)}
InRemainder(r, pass, path) ==
  {j \in DOMAIN Remainder(r, pass) : Remainder(r, pass)[j].path = path}

\* A file that matches a pattern is printed once, under the first pattern
\* it matches, and the size of a group is the sum of the sizes of its files
FirstPatternWins(r, pass) ==
  /\ \A path \in Population(pass) :
       FirstMatch(path) > 0 =>
         /\ \E place \in PlacesIn(r, pass, path) :
              /\ PlacesIn(r, pass, path) = {place}
              /\ Grouped(r, pass)[place[1]].index = FirstMatch(path)
         /\ InRemainder(r, pass, path) = {}
  /\ \A i \in DOMAIN Grouped(r, pass) :
       LET g == Grouped(r, pass)[i]
       IN  g.size = sum([j \in DOMAIN g.files |-> g.files[j].size])

\* C19: in each of the three passes a file is printed once, under the
\* first pattern it matches; a file that matches no pattern is printed
\* under no group, and once in the ungrouped remainder of the passes that
\* print one (the new and the removed files); the grouped and single totals
\* of the new and of the removed files add up to their totals
C19_GroupingExclusive ==
  pc = "done" =>
    /\ \A pass \in Passes :
         /\ FirstPatternWins(report[1], pass)
         /\ \A path \in Population(pass) :
              FirstMatch(path) = 0 =>
                /\ PlacesIn(report[1], pass, path) = {}
                /\ Cardinality(InRemainder(report[1], pass, path)) =
                     IF pass = "to" THEN 0 ELSE 1
    /\ report[1].totals.newGrouped.size + report[1].totals.newSingle.size
         = report[1].totals.new.size
    /\ report[1].totals.removedGrouped.size + report[1].totals.removedSingle.size
         = report[1].totals.removed.size

\* C20: the total diff size of the report is the sum of the sizes of the new
\* files and of the "to" sizes of the updated files; unchanged and removed
\* files add nothing to it
C20_TotalDiffSize ==
  pc = "done" =>
    report[1].totals.diff.size =
      sum([k \in DOMAIN fileChanges |->
             IF fileChanges[k].type \in {"NEW", "UPDATED"} THEN fileChanges[k].to.size ELSE 0])

\* A report over a new and an updated file of different sizes
C20_Witness ==
  /\ pc = "done"
  /\ \E k \in DOMAIN fileChanges : \E n \in DOMAIN fileChanges :
       /\ fileChanges[k].type = "NEW"
       /\ fileChanges[n].type = "UPDATED"
       /\ fileChanges[k].to.size # fileChanges[n].to.size
       /\ report[1].totals.diff.size = fileChanges[k].to.size + fileChanges[n].to.size

\* The size recorded for a compressor type on a change (0: none recorded)
RecordedSize(change, type) ==
  sum([i \in DOMAIN change.compressorResult |->
         IF change.compressorResult[i].type = type THEN change.compressorResult[i].size ELSE 0])

\* The sum of the sizes recorded for a compressor type on the changes of a kind
RecordedTotal(kind, type) ==
  sum([k \in DOMAIN fileChanges |->
         IF fileChanges[k].type = kind THEN RecordedSize(fileChanges[k], type) ELSE 0])

\* The compressor types with a result on some change
Produced ==
  UNION {{fileChanges[k].compressorResult[i].type : i \in DOMAIN fileChanges[k].compressorResult}
         : k \in DOMAIN fileChanges}

\* C21: for every compressor type with results, zstd included, the total
\* diff line of the report carries the sum of its sizes over the updated
\* files plus the zstd total of the new files, also when the sum over the
\* updated files is 0
C21_PerBackendTotal ==
  pc = "done" =>
    \A type \in Produced :
      <<type, RecordedTotal("UPDATED", type) + RecordedTotal("NEW", "ZSTD")>>
        \in Range(report[1].totals.diff.stats)

\* C22: the file name of an artifact is made of the cache directory, the
\* digests of the inputs joined by "-", a "." and the extension of the
\* backend chain; two calls get the same name exactly when they use the same
\* chain on the same digests
C22_CacheNaming ==
  \A i \in DOMAIN calls : \A j \in DOMAIN calls :
    /\ calls[i].name = calls[j].name <=>
         (calls[i].path.ext = calls[j].path.ext /\ calls[i].path.digests = calls[j].path.digests)
    /\ \E d \in HexDigests : \E e \in HexDigests \cup {<<>>} :
         calls[i].name = <<"c", "/">> \o d \o (IF e = <<>> THEN <<>> ELSE <<"-">> \o e)
                           \o <<".">> \o Extensions[calls[i].path.ext]

\* Two calls on the same pair of digests, a delta and the chain over it
C22_Witness ==
  /\ Len(calls) = 2
  /\ calls[1].path.digests = calls[2].path.digests
  /\ calls[1].path.ext = "vcdiff"
  /\ calls[2].path.ext = "vcdiff.zstd"
  /\ calls[1].name # calls[2].name

\* Walking the segments of a link target from a directory of the tree, each
\* step from a directory that exists; Nowhere once ".." leaves the tree or
\* a step starts from something that is no directory
Nowhere == <<"..">>
RECURSIVE Follow(_, _, _)
Follow(at, segs, k) ==
  IF k > Len(segs) \/ at = Nowhere THEN at
  ELSE IF ~(at = <<>> \/ (at \in DOMAIN fs /\ fs[at].kind = "dir")) THEN Nowhere
  ELSE Follow(CASE segs[k] = "." -> at
                [] segs[k] = ".." -> IF at = <<>> THEN Nowhere ELSE SubSeq(at, 1, Len(at) - 1)
                [] OTHER -> Append(at, segs[k]),
              segs, k + 1)

\* The path in the tree a link points at: an absolute target is walked from
\* the root of the tree, a relative one from the directory of the link
PointsAt(q) ==
  IF fs[q].target.abs THEN Follow(<<>>, fs[q].target.segs, 1)
  ELSE Follow(SubSeq(q, 1, Len(q) - 1), fs[q].target.segs, 1)

\* Whether following the links from a path ends at something that exists,
\* within the given number of hops
RECURSIVE Resolves(_, _)
Resolves(q, hops) ==
  \/ q = <<>>
  \/ /\ q \in DOMAIN fs
     /\ fs[q].kind = "link" => (hops > 0 /\ Resolves(PointsAt(q), hops - 1))

\* C23: when listFolder returns, the results hold one entry for each regular
\* file and each symbolic link that resolves, found below the root through
\* directories only; no entry for a directory or any other kind of node, no
\* entry for a symbolic link whose target does not resolve, and no path twice
C23_ListerEntries ==
  walk = "done" =>
    /\ {results[i].path : i \in DOMAIN results} =
         {q \in DOMAIN fs :
            /\ fs[q].kind \in {"file", "link"}
            /\ \A k \in 1..(Len(q) - 1) : fs[SubSeq(q, 1, k)].kind = "dir"
            /\ fs[q].kind = "link" => Resolves(q, 3)}
    /\ \A i \in DOMAIN results : \A j \in DOMAIN results :
         results[i].path = results[j].path => i = j
    /\ \A i \in DOMAIN results :
         /\ results[i].isFile <=> fs[results[i].path].kind = "file"
         /\ results[i].isSymbolicLink <=> fs[results[i].path].kind = "link"

\* C24: the symlinkPath of an entry is relative to the root of the tree: an
\* absolute target is taken from the root of the tree, a relative target
\* from the directory of the link; when the link points at a regular file of
\* the tree, symlinkPath is the path of the entry of that file
C24_SymlinkNormalized ==
  walk = "done" =>
    \A i \in DOMAIN results :
      results[i].isSymbolicLink =>
        LET q == results[i].path
        IN  /\ fs[q].target.abs => results[i].symlinkPath = fs[q].target.segs
            /\ (PointsAt(q) \in DOMAIN fs /\ fs[PointsAt(q)].kind = "file") =>
                 \E j \in DOMAIN results :
                   results[j].isFile /\ results[j].path = results[i].symlinkPath

\* The alias table of one tree, as a set of pairs: each symlink target with
\* the set of the paths of the symlinks of that tree pointing at it
AliasesOf(files) ==
  {<<files[l].symlinkPath,
     {files[m].path : m \in {m \in DOMAIN files :
                               /\ files[m].isSymbolicLink
                               /\ files[m].symlinkPath = files[l].symlinkPath}}>>
     : l \in {l \in DOMAIN files : files[l].isSymbolicLink}}

\* An alias table of main as a set of such pairs
AsPairs(table) == {<<t, Range(table[t])>> : t \in DOMAIN table}

\* C25: once the tables are built, toAliases maps each target of a symlink
\* of the "to" tree to the symlinks of the "to" tree pointing at it, and
\* fromAliases does the same for the "from" tree; no path of one tree is in
\* the table of the other
C25_AliasTablesPerSide ==
  pc # "aliases" =>
    /\ AsPairs(toAliases) = AliasesOf(toFiles)
    /\ AsPairs(fromAliases) = AliasesOf(fromFiles)

\* C27: the report of diffoscope gets to its final path complete or not at
\* all: when the tool fails or the run is interrupted during the write, no
\* file is left at the final path, and a later call never reads a partly
\* written report as the cached one
C27_DiffoscopeAtomic ==
  /\ \A p \in Runs :
       (procs[p].ext = "diffoscope" /\ procs[p].pc \in {"killed", "threw"}) =>
         (Final("diffoscope") \in DOMAIN dir => dir[Final("diffoscope")] = "complete")
  /\ \A p \in Runs :
       (procs[p].ext = "diffoscope" /\ procs[p].hit) => procs[p].read \in {"none", "complete"}

\* The delta a compressed delta is made from
InnerOf(ext) ==
  CASE ext = "vcdiff.zstd" -> "vcdiff"
    [] ext = "courgette.zstd" -> "courgette"
    [] ext = "zucchini.zstd" -> "zucchini"
ChainedExts == {"vcdiff.zstd", "courgette.zstd", "zucchini.zstd"}

\* An artifact an earlier run left: the tool of this run gives another size
LeftByEarlierRun(path) == path \in DOMAIN cache /\ cache[path] \in StaleSizes
FirstCallFor(k) == \A j \in 1..(k - 1) : calls[j].path # calls[k].path

\* C26: the call for a compressed delta directly follows the completed call
\* for its delta, whose artifact is then at its final path; each of the two
\* calls runs its tool exactly when its own artifact was missing, whatever
\* the state of the other: the delta's tool runs when only the compressed
\* delta was left by an earlier run, the compressor when only the delta was.
C26_ChainedLookups ==
  \A k \in DOMAIN calls :
    calls[k].path.ext \in ChainedExts =>
      LET outer == calls[k].path
          inner == ArtifactPath(outer.digests, InnerOf(outer.ext))
      IN  /\ k > 1
          /\ calls[k - 1].path = inner
          /\ inner \in DOMAIN cache
          /\ calls[k - 1].size = cache[inner]
          /\ calls[k - 1].tool <=> ~calls[k - 1].present
          /\ calls[k].tool <=> ~calls[k].present
          /\ FirstCallFor(k - 1) => (calls[k - 1].present <=> LeftByEarlierRun(inner))
          /\ FirstCallFor(k) => (calls[k].present <=> LeftByEarlierRun(outer))

\* The compressed delta was left by an earlier run and the delta was not:
\* the delta's tool ran and the compressor did not
C26_Witness ==
  \E k \in DOMAIN calls :
    /\ calls[k].path.ext = "vcdiff.zstd"
    /\ k > 1 /\ calls[k - 1].path.ext = "vcdiff"
    /\ calls[k - 1].tool /\ ~calls[k - 1].present
    /\ ~calls[k].tool /\ calls[k].present
    /\ cache[calls[k].path] \in StaleSizes

\* The delta was left by an earlier run and the compressed delta was not:
\* only the compressor ran
C26_OuterOnly ==
  \E k \in DOMAIN calls :
    /\ calls[k].path.ext = "vcdiff.zstd"
    /\ k > 1 /\ calls[k - 1].path.ext = "vcdiff"
    /\ ~calls[k - 1].tool /\ calls[k - 1].present
    /\ calls[k].tool /\ ~calls[k].present
    /\ calls[k].size = ToolSize(calls[k].path)

\* Lines printed by size, largest first
Descending(lines) ==
  \A i \in DOMAIN lines : \A j \in DOMAIN lines : i < j => lines[i].size >= lines[j].size

\* The lists of single files are printed by size, and the totals of the
\* report are those of the lines printed, in whatever order
SinglesDescending ==
  pc = "done" =>
    /\ \A pass \in Passes : Descending(Remainder(report[1], pass))
    /\ report[1].totals.newSingle.size =
         sum([j \in DOMAIN report[1].singleNew |-> report[1].singleNew[j].size])
    /\ report[1].totals.removedSingle.size =
         sum([j \in DOMAIN report[1].singleRemoved |-> report[1].singleRemoved[j].size])
    /\ \A pass \in Passes : \A i \in DOMAIN Grouped(report[1], pass) :
         LET g == Grouped(report[1], pass)[i]
         IN  g.size = sum([j \in DOMAIN g.files |-> g.files[j].size])

\* C28: in the report the files of every pattern group, and the files of
\* the lists of single files, are printed by size, largest first, and the
\* totals do not depend on the order
C28_DisplayOrder ==
  /\ SinglesDescending
  /\ pc = "done" =>
       \A pass \in Passes : \A i \in DOMAIN Grouped(report[1], pass) :
         Descending(Grouped(report[1], pass)[i].files)

\* Two single files of different sizes, listed smallest first, are printed
\* largest first
SinglesReordered ==
  /\ pc = "done"
  /\ Len(report[1].singleNew) = 2
  /\ report[1].singleNew[1].path = Libfoo_so_2
  /\ report[1].singleNew[1].size > report[1].singleNew[2].size

\* The backends whose flag is set and whose tool the probe has found
EnabledAndAvailable == {b \in flags : ToolOfBackend(b) \in installed}

\* C29: the result list of every classified file holds at most one result
\* for each compressor type, and a result of a type only when every backend
\* the type needs has its flag set and its tool installed; the result of a
\* compressed delta needs both the delta backend and zstd
C29_ResultsOfEnabledBackends ==
  \A k \in DOMAIN fileChanges :
    LET cr == fileChanges[k].compressorResult
    IN  /\ \A i \in DOMAIN cr : \A j \in DOMAIN cr : cr[i].type = cr[j].type => i = j
        /\ \A i \in DOMAIN cr :
             /\ BackendsOf(cr[i].type) # {}
             /\ BackendsOf(cr[i].type) \subseteq EnabledAndAvailable
        /\ (\E i \in DOMAIN cr : cr[i].type = "VC_DIFF_ZSTD") =>
             {"vcdiff", "zstd"} \subseteq EnabledAndAvailable

\* An updated file with the results of bsdiff and vcdiff only, in a run that
\* has the flag of zstd set on a machine without zstd
C29_Witness ==
  /\ "zstd" \in flags \ installed
  /\ \E k \in DOMAIN fileChanges :
       /\ fileChanges[k].type = "UPDATED"
       /\ [i \in DOMAIN fileChanges[k].compressorResult |->
             fileChanges[k].compressorResult[i].type] = <<"BS_DIFF", "VC_DIFF">>

\* An updated file with the four results of a run with every backend
C29_AllResults ==
  \E k \in DOMAIN fileChanges :
    [i \in DOMAIN fileChanges[k].compressorResult |->
       fileChanges[k].compressorResult[i].type] = <<"ZSTD", "BS_DIFF", "VC_DIFF", "VC_DIFF_ZSTD">>

\* The extensions of the deltas of a pair of files
DeltaExts == {"bsdiff", "vcdiff", "vcdiff.zstd", "zstddiff", "courgette", "courgette.zstd",
              "zucchini", "zucchini.zstd", "diffoscope"}

\* Deltas are made for updated pairs only: between two different contents,
\* and the results other than ZSTD are attached to updated files only
DeltasForUpdatedOnly ==
  /\ \A k \in DOMAIN calls :
       calls[k].path.ext \in DeltaExts =>
         /\ Len(calls[k].path.digests) = 2
         /\ calls[k].path.digests[1] # calls[k].path.digests[2]
  /\ \A k \in DOMAIN fileChanges :
       fileChanges[k].type # "UPDATED" =>
         \A i \in DOMAIN fileChanges[k].compressorResult :
           fileChanges[k].compressorResult[i].type = "ZSTD"

\* C30: deltas are made for updated pairs only, the results of new and
\* removed files are those of the standalone compression, and a file that
\* is the same in both trees has no result attached
C30_NoBackendForSame ==
  /\ DeltasForUpdatedOnly
  /\ \A k \in DOMAIN fileChanges :
       fileChanges[k].type = "SAME" => fileChanges[k].compressorResult = <<>>

\* The step that classifies a file as the same in both trees calls no wrapper
SameCallsNoWrapper ==
  [][(Len(fileChanges') > Len(fileChanges) /\ fileChanges'[Len(fileChanges')].type = "SAME")
       => calls' = calls]_vars

\* The has*() function that probes a backend, and the probes of backends
ProbeOf(b) ==
  CASE b = "bsdiff" -> "hasBsdiff"
    [] b = "vcdiff" -> "hasVciff"
    [] b = "courgette" -> "hasCourgette"
    [] b = "zucchini" -> "hasZucchini"
    [] b \in {"zstd", "zstdDelta"} -> "hasZstd"
BackendProbes == {ProbeOf(b) : b \in Backends}

\* The positions of the trace at which a step of these names is recorded
Positions(names) == {i \in DOMAIN trace : trace[i] \in names}

\* The probes are over before an image is extracted or a tree is walked,
\* and what they found does not change until the run ends
ProbedFirstAndFixed ==
  /\ [](\A i \in Positions(BackendProbes) : \A j \in Positions({"extract", "walk"}) : i < j)
  /\ [](pc \notin {"start", "usage", "failed"} => use = {b \in flags : ToolOfBackend(b) \in installed})
  /\ [][pc # "start" /\ run' = run => use' = use]_vars

\* C31 as stated: the tool of a backend is probed at most once in a run,
\* and only when the flag of a backend that runs it is set; the probes come
\* before the trees are walked and their result is fixed
C31_ProbedOncePerTool ==
  /\ ProbedFirstAndFixed
  /\ [](\A name \in BackendProbes :
          /\ Cardinality(Positions({name})) <= 1
          /\ Positions({name}) # {} => \E b \in flags : ProbeOf(b) = name)

\* C31, amended: each backend whose flag is set is probed once in a run,
\* a backend whose flag is not set is not probed, so that the tool zstd is
\* probed once for each of zstd and zstdDelta that is enabled; the probes
\* come before the trees are walked and their result is fixed
C31_ProbedOncePerBackend ==
  /\ ProbedFirstAndFixed
  /\ [](pc \notin {"start", "usage", "failed"} =>
          \A name \in BackendProbes :
            Cardinality(Positions({name})) = Cardinality({b \in flags : ProbeOf(b) = name}))
  /\ [](\A name \in BackendProbes :
          Cardinality(Positions({name})) <= Cardinality({b \in flags : ProbeOf(b) = name}))

\* A run with the flags of zstd and zstdDelta has walked the trees after
\* two probes of zstd
C31_Witness ==
  /\ flags = {"zstd", "zstdDelta"}
  /\ Cardinality(Positions({"hasZstd"})) = 2
  /\ Positions({"walk"}) # {}
  /\ use = flags

\* Grouped and single totals add up to the total, for sizes and zstd sizes
AddsUp(grouped, single, total) ==
  /\ grouped.size + single.size = total.size
  /\ grouped.zstd + single.zstd = total.zstd

\* C32: in the totals of the report the unchanged, new and updated ("to"
\* side) sizes add up to the size of the regular files of the "to" tree,
\* and the grouped and single totals of the new files, and of the removed
\* files, add up to the totals of their class, for sizes and for zstd sizes
C32_SizeConservation ==
  pc = "done" =>
    LET t == report[1].totals
    IN  /\ t.same + t.new.size + t.updated.to =
             sum([k \in DOMAIN toRegular |-> toRegular[k].size])
        /\ AddsUp(t.newGrouped, t.newSingle, t.new)
        /\ AddsUp(t.removedGrouped, t.removedSingle, t.removed)
        /\ t.removed.size =
             sum([k \in DOMAIN fileChanges |->
                    IF fileChanges[k].type = "REMOVED" THEN fileChanges[k].from.size ELSE 0])

\* A report over two removed files, one of them in a group, with zstd sizes
C32_Witness ==
  /\ pc = "done"
  /\ report[1].totals.removedGrouped.size > 0
  /\ report[1].totals.removedSingle.size > 0
  /\ report[1].totals.removedGrouped.zstd > 0
  /\ report[1].totals.removedSingle.zstd > 0
  /\ report[1].totals.removedGrouped.size # report[1].totals.removedSingle.size

\* A report over new, unchanged and updated files of the "to" tree
C32_ToTree ==
  /\ pc = "done"
  /\ report[1].totals.same > 0
  /\ report[1].totals.updated.to > 0

\* The directories of the tree, the root included, as absolute paths
RealDirs == {Root} \cup {Root \o q : q \in {q \in DOMAIN fs : fs[q].kind = "dir"}}

\* The links of the tree that lead to a directory, or to themselves
LinksToDirs ==
  {q \in DOMAIN fs : fs[q].kind = "link" /\ PointsAt(q) # Nowhere
                     /\ (PointsAt(q) = <<>> \/ (PointsAt(q) \in DOMAIN fs
                                                /\ fs[PointsAt(q)].kind \in {"dir", "link"}))}

\* C33: listFolder returns on every tree, also with links to directories
\* and cycles of links: only directories enter the queue, never a link; no
\* directory is read twice; when the call returns, the queue is empty and
\* every directory of the tree has been read once
C33_WalkTerminates ==
  /\ [](\A k \in DOMAIN dirs : dirs[k] \in RealDirs)
  /\ [](\A i \in DOMAIN visited : \A j \in DOMAIN visited :
          visited[i] = visited[j] => i = j)
  /\ [](\A i \in DOMAIN visited : visited[i] \in RealDirs /\ \A k \in DOMAIN dirs : dirs[k] # visited[i])
  /\ [](walk = "done" => dirs = <<>> /\ Range(visited) = RealDirs)
  /\ <>(walk = "done")

\* The walk has returned on a tree with a link to a directory above it
C33_Witness ==
  /\ walk = "done"
  /\ <<"a", "a">> \in DOMAIN fs
  /\ fs[<<"a", "a">>].kind = "link"
  /\ fs[<<"a", "a">>].target = Raw(TRUE, <<"a">>)
  /\ <<"a", "a">> \in LinksToDirs
  /\ Len(visited) = 2

\* The files at the final paths of the delta and compression artifacts
FinalFiles(d) ==
  [f \in {Final(ext) : ext \in DeltaArtifacts} \cap DOMAIN d |-> d[f]]

\* The step of a call that renames its complete temporary file
Renames(p) ==
  /\ procs[p].pc = "rename" /\ procs'[p].pc = "stat"
  /\ TmpOf(p) \in DOMAIN dir /\ dir[TmpOf(p)] = "complete"
  /\ dir' = WithFile(WithoutFile(dir, TmpOf(p)), Final(procs[p].ext), "complete")

\* C34: a wrapper called with overwrite set runs the tool also when the
\* artifact exists, and returns only after the rename of the complete
\* temporary file; the files at the final paths change by such a rename
\* only, so that the artifact that was there stays, complete, while the tool
\* runs and when it fails or the call is killed
C34_Overwrite ==
  /\ [][\A p \in Runs :
          (procs[p].overwrite /\ procs[p].pc = "lstat" /\ procs'[p].pc \notin {"lstat", "killed"})
            => procs'[p].pc = "exec"]_vars
  /\ [][\A p \in Runs :
          (procs[p].overwrite /\ procs'[p].overwrite /\ procs'[p].n = procs[p].n
           /\ procs'[p].pc = "returned" /\ procs[p].pc # "returned")
            => procs[p].pc = "stat"]_vars
  /\ [][FinalFiles(dir') # FinalFiles(dir) => \E p \in Runs : Renames(p)]_vars
  /\ [][\A p \in Runs :
          (procs'[p].pc \in {"threw", "killed"} /\ procs[p].pc \notin {"threw", "killed"})
            => FinalFiles(dir') = FinalFiles(dir)]_vars
  /\ [](\A f \in DOMAIN FinalFiles(dir) : dir[f] = "complete")
  /\ [][\A f \in DOMAIN FinalFiles(dir) : f \in DOMAIN FinalFiles(dir')]_vars

\* The tool of a call with overwrite has failed, and the artifact an
\* earlier call has made is still at the final path
C34_Witness ==
  \E p \in Runs :
    /\ procs[p].overwrite
    /\ procs[p].pc = "threw"
    /\ procs[p].n = 2
    /\ \A q \in Runs \ {p} : procs[q].n = 0
    /\ Final(procs[p].ext) \in DOMAIN dir
    /\ dir[Final(procs[p].ext)] = "complete"

\* A call with overwrite is about to rename its file over the artifact
C34_Replaces ==
  \E p \in Runs :
    /\ procs[p].overwrite
    /\ procs[p].pc = "rename"
    /\ Final(procs[p].ext) \in DOMAIN dir

(***************************************************************************)
(* runCommand: the process it starts                                       *)
(***************************************************************************)

\* The commands, arguments and options.container of the calls of the model;
\* options.container is unset, the empty string, or the name of an image
Commands == {"zucchini", "xdelta3", "courgette"}
Arguments == {"-gen", "f"}
ArgumentLists == UNION {[1..n -> Arguments] : n \in 0..2}
Unset == <<>>
Containers == {Unset, <<"">>, <<"img">>}

\* if (options.container): unset and the empty string are falsy
truthy(container) == container # Unset /\ container[1] # ""

\* What execFile hands to the callback as error
ExecErrors == {"null", "ExecException"}

\* runCommand(command, args, options): the assignments in the order of the
\* code, `command = 'docker'` before `args = ['run', options.container,
\* command, ...args]`; the promise resolves with {error, stdout, stderr}
runCommand(command, argv, options, error) ==
  LET command1 == IF truthy(options.container) THEN "docker" ELSE command
      args1 == IF truthy(options.container)
                 THEN <<"run", options.container[1], command1>> \o argv ELSE argv
  IN  [command |-> command1, args |-> args1,
       result |-> [error |-> error], threw |-> FALSE]

\* A caller awaits runCommand; the requests and the processes of two calls
\* are kept
RunCommand ==
  /\ Len(calls) < 2
  /\ \E command \in Commands : \E arguments \in ArgumentLists :
       \E container \in Containers : \E error \in ExecErrors :
         calls' = Append(calls,
                    [command |-> command, args |-> arguments, container |-> container,
                     error |-> error,
                     started |-> runCommand(command, arguments, [container |-> container],
                                            error)])
  /\ UNCHANGED <<fromFiles, toFiles, toAliases, fromAliases, fileChanges, log, use,
                 cache, pc, idx>>
  /\ UNCHANGED <<inputVars, listerVars, runVars, wrapperVars>>

InitCommand ==
  /\ fromFiles = <<>> /\ toFiles = <<>>
  /\ use = {}
  /\ cache = <<>>
  /\ Start
  /\ Compared

NextCommand == RunCommand

SpecCommand == InitCommand /\ [][NextCommand]_vars

\* A failure of the tool comes back as the error of the result, not thrown
FailureIsAValue ==
  \A k \in DOMAIN calls :
    /\ ~calls[k].started.threw
    /\ calls[k].started.result.error = calls[k].error

\* Without a container the requested command is started with its arguments
StartedDirectly ==
  \A k \in DOMAIN calls :
    ~truthy(calls[k].container) =>
      /\ calls[k].started.command = calls[k].command
      /\ calls[k].started.args = calls[k].args

\* C35: with options.container the process started is docker with the
\* arguments run, the container, the requested command and its arguments;
\* without it the requested command is started with its arguments; in both
\* cases a failure of the tool is returned in the result, not thrown
C35_RunCommand ==
  /\ FailureIsAValue
  /\ StartedDirectly
  /\ \A k \in DOMAIN calls :
       truthy(calls[k].container) =>
         /\ calls[k].started.command = "docker"
         /\ calls[k].started.args =
              <<"run", calls[k].container[1], calls[k].command>> \o calls[k].args

\* What the code starts with options.container: docker run <container>
\* docker <args>, the requested command is lost
StartsDockerInDocker ==
  \A k \in DOMAIN calls :
    truthy(calls[k].container) =>
      /\ calls[k].started.command = "docker"
      /\ calls[k].started.args = <<"run", calls[k].container[1], "docker">> \o calls[k].args

=============================================================================
